---- MODULE Spec2Model ----
(***************************************************************************)
(* Job Radar acquisition pipeline: the ingestion entrypoint                *)
(* (POST /api/radar/ingest), the discovery sweep (performDiscoverySweep),  *)
(* the scoring engine (calculateScore / scoreJobs) and the JobLead and     *)
(* RadarZone tables they share.  Every await of the JavaScript code is an  *)
(* interleaving point: one action of the model is the code that runs from  *)
(* the resolution of one await up to the next await.                       *)
(***************************************************************************)
EXTENDS Integers, Sequences, FiniteSets, TLC

VARIABLES
    zones,      \* RadarZone table, in retrieval order
    leads,      \* JobLead table: a set of rows
    nextId,     \* next surrogate id handed out by the store
    req,        \* ingest requests: request id -> handler state
    sw,         \* sweeps: sweep id -> performDiscoverySweep state
    runs,       \* pipeline runs (ingest requests + sweeps) started so far
    envOps,     \* requests of other clients served and store failures so far:
                \* zone configuration requests, direct lead requests
                \* (POST/PATCH/DELETE /api/leads), store errors other than
                \* unique conflicts
    call        \* the last completed call of a function or route examined on
                \* its own: its name, arguments and result

vars == <<zones, leads, nextId, req, sw, runs, envOps, call>>

----------------------------------------------------------------------------
(* Bounds of the model *)

MaxRuns == 2
MaxEnvOps == 1
MaxFragments == 2   \* pieces of markup in a document given to detectSource
MaxZones == 2       \* rows of a zone table given to the scoring engine on its own
MaxFinding == 2     \* adapters whose selectors find cards in one document
MaxCards == 3       \* postings in a list given to deduplicateJobs
MaxEntries == 2     \* job entries of an API payload

MaxDescription == 500   \* description.substring(0, 500)

Reqs == {"r1", "r2"}
Sweeps == {"s1", "s2"}

----------------------------------------------------------------------------
(* Text: a string is a sequence of one-character strings *)

EmptyText == <<>>
NullText == <<"null">>       \* SQL NULL / JavaScript null in a text column

\* String.prototype.toLowerCase on one character (ASCII letters)
Lower(c) ==
    CASE c = "A" -> "a" [] c = "B" -> "b" [] c = "C" -> "c" [] c = "D" -> "d"
      [] c = "E" -> "e" [] c = "F" -> "f" [] c = "G" -> "g" [] c = "H" -> "h"
      [] c = "I" -> "i" [] c = "J" -> "j" [] c = "K" -> "k" [] c = "L" -> "l"
      [] c = "M" -> "m" [] c = "N" -> "n" [] c = "O" -> "o" [] c = "P" -> "p"
      [] c = "Q" -> "q" [] c = "R" -> "r" [] c = "S" -> "s" [] c = "T" -> "t"
      [] c = "U" -> "u" [] c = "V" -> "v" [] c = "W" -> "w" [] c = "X" -> "x"
      [] c = "Y" -> "y" [] c = "Z" -> "z"
      [] OTHER -> c

ToLowerCase(s) == [i \in 1..Len(s) |-> Lower(s[i])]

\* String.prototype.includes
Includes(hay, needle) ==
    \E i \in 0..(Len(hay) - Len(needle)) :
        SubSeq(hay, i + 1, i + Len(needle)) = needle

\* (x || '')
OrEmpty(t) == IF t = NullText \/ t = EmptyText THEN EmptyText ELSE t
\* (x || null)
OrNull(t) == IF t = EmptyText \/ t = NullText THEN NullText ELSE t

\* cleanText: '' for a falsy text, else every run of whitespace replaced by
\* one space and the ends trimmed
CleanText(t) ==
    IF t = NullText \/ t = EmptyText THEN EmptyText
    ELSE LET IsSpace(c) == c \in {" ", "\n", "\r", "\t"}
             Kept(i) ==
                 \/ ~IsSpace(t[i])
                 \/ /\ i > 1
                    /\ ~IsSpace(t[i - 1])
                    /\ \E j \in (i + 1)..Len(t) : ~IsSpace(t[j])
             marked == [i \in 1..Len(t) |->
                           IF ~Kept(i) THEN "drop"
                           ELSE IF IsSpace(t[i]) THEN " " ELSE t[i]]
         IN SelectSeq(marked, LAMBDA c : c # "drop")

----------------------------------------------------------------------------
(* Source detection: detectSource *)

\* The string literals of detectSource, as written in the code
DetectionList ==
    <<
       \* 'linkedin.com' || 'job-card-container'
       [source |-> "LinkedIn",
        needles |-> << <<"l", "i", "n", "k", "e", "d", "i", "n", ".", "c", "o", "m">>,
                       <<"j", "o", "b", "-", "c", "a", "r", "d", "-", "c", "o", "n", "t", "a", "i", "n", "e", "r">> >>],
       \* 'indeed.com' || 'jobsearch-resultsList'
       [source |-> "Indeed",
        needles |-> << <<"i", "n", "d", "e", "e", "d", ".", "c", "o", "m">>,
                       <<"j", "o", "b", "s", "e", "a", "r", "c", "h", "-", "r", "e", "s", "u", "l", "t", "s", "L", "i", "s", "t">> >>],
       \* 'otta.com' || 'otta'
       [source |-> "Otta",
        needles |-> << <<"o", "t", "t", "a", ".", "c", "o", "m">>,
                       <<"o", "t", "t", "a">> >>],
       \* 'boards.greenhouse.io' || 'greenhouse'
       [source |-> "Greenhouse",
        needles |-> << <<"b", "o", "a", "r", "d", "s", ".", "g", "r", "e", "e", "n", "h", "o", "u", "s", "e", ".", "i", "o">>,
                       <<"g", "r", "e", "e", "n", "h", "o", "u", "s", "e">> >>],
       \* 'jobs.lever.co' || 'lever.co'
       [source |-> "Lever",
        needles |-> << <<"j", "o", "b", "s", ".", "l", "e", "v", "e", "r", ".", "c", "o">>,
                       <<"l", "e", "v", "e", "r", ".", "c", "o">> >>],
       \* 'jobs.ashbyhq.com' || 'ashbyhq'
       [source |-> "Ashby",
        needles |-> << <<"j", "o", "b", "s", ".", "a", "s", "h", "b", "y", "h", "q", ".", "c", "o", "m">>,
                       <<"a", "s", "h", "b", "y", "h", "q">> >>],
       \* 'ats.rippling.com' || 'rippling.com'
       [source |-> "Rippling",
        needles |-> << <<"a", "t", "s", ".", "r", "i", "p", "p", "l", "i", "n", "g", ".", "c", "o", "m">>,
                       <<"r", "i", "p", "p", "l", "i", "n", "g", ".", "c", "o", "m">> >>]
    >>

DetectionHit(lowerHtml, i) ==
    \E k \in 1..Len(DetectionList[i].needles) :
        Includes(lowerHtml, DetectionList[i].needles[k])

\* const lowerHtml = html.toLowerCase(); the first branch whose includes() is
\* true returns its source; return 'auto' after the last.
DetectSource(text) ==
    LET lowerHtml == ToLowerCase(text)
        hits == {i \in 1..Len(DetectionList) : DetectionHit(lowerHtml, i)}
    IN IF hits = {} THEN "auto"
       ELSE DetectionList[CHOOSE i \in hits : \A j \in hits : i <= j].source

\* Pieces of markup that pages of the boards carry
Frag ==
    [
       \* www.LinkedIn.com/jobs
       LinkedinUrl |->
           <<"w", "w", "w", ".", "L", "i", "n", "k", "e", "d", "I", "n", ".", "c", "o", "m", "/", "j", "o", "b", "s">>,
       \* class=job-card-container
       JobCard |->
           <<"c", "l", "a", "s", "s", "=", "j", "o", "b", "-", "c", "a", "r", "d", "-", "c", "o", "n", "t", "a", "i", "n", "e", "r">>,
       \* uk.indeed.com
       IndeedUrl |->
           <<"u", "k", ".", "i", "n", "d", "e", "e", "d", ".", "c", "o", "m">>,
       \* id=jobsearch-resultsList
       IndeedList |->
           <<"i", "d", "=", "j", "o", "b", "s", "e", "a", "r", "c", "h", "-", "r", "e", "s", "u", "l", "t", "s", "L", "i", "s", "t">>,
       \* app.otta.com
       Otta |->
           <<"a", "p", "p", ".", "o", "t", "t", "a", ".", "c", "o", "m">>,
       \* Greenhouse
       Greenhouse |->
           <<"G", "r", "e", "e", "n", "h", "o", "u", "s", "e">>,
       \* boards.greenhouse.io/x
       GreenhouseUrl |->
           <<"b", "o", "a", "r", "d", "s", ".", "g", "r", "e", "e", "n", "h", "o", "u", "s", "e", ".", "i", "o", "/", "x">>,
       \* jobs.lever.co/x
       Lever |->
           <<"j", "o", "b", "s", ".", "l", "e", "v", "e", "r", ".", "c", "o", "/", "x">>,
       \* ashbyhq
       Ashby |->
           <<"a", "s", "h", "b", "y", "h", "q">>,
       \* ats.Rippling.com
       Rippling |->
           <<"a", "t", "s", ".", "R", "i", "p", "p", "l", "i", "n", "g", ".", "c", "o", "m">>,
       \* <li>Job</li>
       Plain |->
           <<"<", "l", "i", ">", "J", "o", "b", "<", "/", "l", "i", ">">>
    ]

Fragments == {Frag[k] : k \in DOMAIN Frag}

RECURSIVE Concat(_)
Concat(parts) == IF parts = <<>> THEN <<>> ELSE Head(parts) \o Concat(Tail(parts))

\* Documents: up to MaxFragments pieces of markup, one after the other
Documents ==
    UNION { { Concat(f) : f \in [1..n -> Fragments] } : n \in 0..MaxFragments }

----------------------------------------------------------------------------
(* Postings as the adapters return them *)

Posting(title, company, location, description, url) ==
    [title |-> title, companyName |-> company, location |-> location,
     description |-> description, jobUrl |-> url]

JobA == Posting(<<"P", "y">>, <<"x">>, <<"O", "n">>, <<>>, "u1")
JobB == Posting(<<"q">>, <<"x">>, <<>>, <<"p", "y">>, "u2")

\* The names of the adapters, in the order parseJobHtml tries them
SourceNames ==
    <<"LinkedIn", "Indeed", "Otta", "Greenhouse", "Lever", "Ashby", "Rippling">>

\* JavaScript values that arrive as rawHtml or come back from the page fetch:
\* the type and truthiness of the value and, for a document, its text and the
\* cards that the selectors of each adapter find in it (by).
JsPage(type, truthy, text, by) == [type |-> type, truthy |-> truthy, text |-> text, by |-> by]

\* A value with the same cards for every adapter: jobs
JsValue(type, truthy, jobs) ==
    JsPage(type, truthy, IF type = "string" /\ truthy THEN Frag.Plain ELSE <<>>,
           [n \in {SourceNames[i] : i \in 1..Len(SourceNames)} |-> jobs])

HtmlNull == JsValue("null", FALSE, <<>>)
HtmlEmptyString == JsValue("string", FALSE, <<>>)
HtmlNumber == JsValue("number", TRUE, <<>>)
HtmlNoJobs == JsValue("string", TRUE, <<>>)
HtmlA == JsValue("string", TRUE, <<JobA>>)
HtmlAB == JsValue("string", TRUE, <<JobA, JobB>>)

\* Request bodies: every kind of rawHtml, and the ones sent while sweeps run.
RawHtmlValues == {HtmlNull, HtmlEmptyString, HtmlNumber, HtmlNoJobs, HtmlA, HtmlAB}
ConcurrentHtmlValues == {HtmlEmptyString, HtmlNumber, HtmlA}

FetchedPages == {HtmlNoJobs, HtmlA}

SourceHints == {"auto", "LinkedIn"}

\* deduplicateJobs: jobs.filter(job => !(!job.jobUrl || seen.has(job.jobUrl)))
\* with seen growing as postings are kept.
RECURSIVE DeduplicateFrom(_, _)
DeduplicateFrom(jobs, seen) ==
    IF jobs = <<>> THEN <<>>
    ELSE LET job == Head(jobs)
         IN IF job.jobUrl = "" \/ job.jobUrl \in seen
            THEN DeduplicateFrom(Tail(jobs), seen)
            ELSE <<job>> \o DeduplicateFrom(Tail(jobs), seen \cup {job.jobUrl})

DeduplicateJobs_KeepLast(jobs) ==
    SelectSeq([i \in 1..Len(jobs) |->
                  IF jobs[i].jobUrl = ""
                     \/ \E j \in (i + 1)..Len(jobs) : jobs[j].jobUrl = jobs[i].jobUrl
                  THEN [jobs[i] EXCEPT !.jobUrl = ""] ELSE jobs[i]],
              LAMBDA job : job.jobUrl # "")
DeduplicateJobs(jobs) == DeduplicateFrom(jobs, {})

\* An adapter on a string document: the cards its selectors find, each stamped
\* with the adapter's source name, then return deduplicateJobs(jobs).
AdapterOutput(html, source) ==
    DeduplicateJobs(
        [i \in 1..Len(html.by[source]) |->
            [title |-> html.by[source][i].title,
             companyName |-> html.by[source][i].companyName,
             location |-> html.by[source][i].location,
             description |-> html.by[source][i].description,
             jobUrl |-> html.by[source][i].jobUrl,
             source |-> source]])

\* The characters of the source names that reach parseJobHtml as its hint
HintChars(source) ==
    CASE source = "auto" -> <<"a", "u", "t", "o">>
      [] source = "LinkedIn" -> <<"L", "i", "n", "k", "e", "d", "I", "n">>
      [] source = "Indeed" -> <<"I", "n", "d", "e", "e", "d">>
      [] source = "Otta" -> <<"O", "t", "t", "a">>
      [] source = "Greenhouse" -> <<"G", "r", "e", "e", "n", "h", "o", "u", "s", "e">>
      [] source = "Lever" -> <<"L", "e", "v", "e", "r">>
      [] source = "Ashby" -> <<"A", "s", "h", "b", "y">>
      [] source = "Rippling" -> <<"R", "i", "p", "p", "l", "i", "n", "g">>
      [] source = "linkedin" -> <<"l", "i", "n", "k", "e", "d", "i", "n">>
      [] source = "INDEED" -> <<"I", "N", "D", "E", "E", "D">>
      [] source = "Monster" -> <<"M", "o", "n", "s", "t", "e", "r">>

\* switch (source.toLowerCase())
DispatchKey_AsWritten(source) == HintChars(source)
DispatchKey(source) == ToLowerCase(HintChars(source))

\* The case labels of the switch: 'linkedin', 'indeed', ...
CaseLabel(i) == ToLowerCase(HintChars(SourceNames[i]))

\* default: the adapters one after the other, the first non-empty result
RECURSIVE TrialFrom(_, _)
TrialFrom(html, i) ==
    IF i > Len(SourceNames) THEN <<>>
    ELSE IF Len(AdapterOutput(html, SourceNames[i])) > 0
         THEN AdapterOutput(html, SourceNames[i])
         ELSE TrialFrom(html, i + 1)

\* if (source === 'auto') source = detectSource(html), after the guard: what
\* detectSource returned, or "notCalled" when the function did not call it
DetectedSource(html, source) ==
    IF html.truthy /\ html.type = "string" /\ source = "auto"
    THEN DetectSource(html.text)
    ELSE "notCalled"

\* The case labels that match source.toLowerCase() once 'auto' has been
\* replaced by what detectSource returned
DispatchCases(html, source) ==
    LET named == IF source = "auto" THEN DetectedSource(html, source) ELSE source
    IN {i \in 1..Len(SourceNames) : CaseLabel(i) = DispatchKey(named)}

\* Whether the call reaches the default branch of the switch
ReachesDefault(html, source) ==
    html.truthy /\ html.type = "string" /\ DispatchCases(html, source) = {}

ParseJobHtml_TrialWhenEmpty(html, source) ==
    IF ~html.truthy \/ html.type # "string"
    THEN <<>>
    ELSE LET cases == DispatchCases(html, source)
         IN IF cases # {} /\ AdapterOutput(html, SourceNames[CHOOSE i \in cases : TRUE]) # <<>>
            THEN AdapterOutput(html, SourceNames[CHOOSE i \in cases : TRUE])
            ELSE TrialFrom(html, 1)

ParseJobHtml(html, source) ==
    IF ~html.truthy \/ html.type # "string"
    THEN <<>>
    ELSE LET cases == DispatchCases(html, source)
         IN IF cases # {}
            THEN AdapterOutput(html, SourceNames[CHOOSE i \in cases : TRUE])
            ELSE TrialFrom(html, 1)

\* content.replace(/<[^>]*>/g, ' '): every '<' ... '>' run becomes one space
StripTags(t) ==
    LET InTag(i) ==
            \E o \in 1..i :
                /\ t[o] = "<"
                /\ \A k \in o..(i - 1) : t[k] # ">"
                /\ \E c \in i..Len(t) : t[c] = ">"
        marked == [i \in 1..Len(t) |->
                      IF ~InTag(i) THEN t[i]
                      ELSE IF t[i] = ">" THEN " " ELSE "drop"]
    IN SelectSeq(marked, LAMBDA c : c # "drop")

\* text.substring(0, 500)
Substring500(t) == SubSeq(t, 1, IF Len(t) < MaxDescription THEN Len(t) ELSE MaxDescription)

ParseGreenhouseApi_BuiltFirst(entries, org) ==
    DeduplicateJobs(
        SelectSeq(
            [i \in 1..Len(entries) |->
                [title |-> CleanText(entries[i].title),
                 companyName |-> org,
                 location |-> CleanText(OrEmpty(entries[i].locationName)),
                 jobUrl |-> "https://boards.greenhouse.io/" \o org \o "/jobs/" \o entries[i].id,
                 description |->
                     Substring500(CleanText(
                         IF entries[i].content # NullText
                         THEN StripTags(entries[i].content) ELSE EmptyText)),
                 source |-> "Greenhouse"]],
            LAMBDA job : job.title # EmptyText))

\* parseGreenhouseApi(json, org) on the entries of json.jobs: an entry whose
\* cleaned title is empty is skipped; jobUrl is entry.absolute_url, or the URL
\* built from org and entry.id when that is falsy; the description is the
\* content without its tags, cleaned and cut ('' when content is no string);
\* return deduplicateJobs(jobs).
ParseGreenhouseApi(entries, org) ==
    DeduplicateJobs(
        SelectSeq(
            [i \in 1..Len(entries) |->
                [title |-> CleanText(entries[i].title),
                 companyName |-> org,
                 location |-> CleanText(OrEmpty(entries[i].locationName)),
                 jobUrl |-> IF entries[i].absolute_url # ""
                            THEN entries[i].absolute_url
                            ELSE "https://boards.greenhouse.io/" \o org \o "/jobs/" \o entries[i].id,
                 description |->
                     Substring500(CleanText(
                         IF entries[i].content # NullText
                         THEN StripTags(entries[i].content) ELSE EmptyText)),
                 source |-> "Greenhouse"]],
            LAMBDA job : job.title # EmptyText))

\* parseLeverApi, parseAshbyApi and parseRipplingApi on the entries of the job
\* list: the three differ in the names of the entry fields, the label of the
\* team and the URL that is built.  title is entry.text (Lever), entry.title
\* (Ashby), entry.title || entry.name (Rippling); hostedUrl is the first link
\* field (hostedUrl, jobUrl, url); kind is commitment or employmentType.
\* description: descParts.join(' | ')
ParseListingApi(entries, org, source) ==
    LET \* `Team: ${team}`, `Department: ${department}`
        label == IF source = "Rippling"
                 THEN <<"D", "e", "p", "a", "r", "t", "m", "e", "n", "t", ":", " ">>
                 ELSE <<"T", "e", "a", "m", ":", " ">>
        built(id) ==
            CASE source = "Lever" -> "https://jobs.lever.co/" \o org \o "/" \o id
              [] source = "Ashby" -> "https://jobs.ashbyhq.com/" \o org \o "/" \o id
              [] OTHER -> "https://ats.rippling.com/" \o org \o "/jobs/" \o id
        team(e) == CleanText(OrEmpty(e.team))
        descParts(e) ==
            (IF team(e) # EmptyText THEN <<label \o team(e)>> ELSE <<>>)
            \o (IF e.kind # NullText /\ e.kind # EmptyText THEN <<e.kind>> ELSE <<>>)
        joined(parts) ==
            CASE Len(parts) = 0 -> EmptyText
              [] Len(parts) = 1 -> parts[1]
              [] OTHER -> parts[1] \o <<" ", "|", " ">> \o parts[2]
    IN DeduplicateJobs(
           SelectSeq(
               [i \in 1..Len(entries) |->
                   [title |-> CleanText(entries[i].title),
                    companyName |-> org,
                    location |-> CleanText(OrEmpty(entries[i].locationName)),
                    jobUrl |-> IF entries[i].hostedUrl # "" THEN entries[i].hostedUrl
                               ELSE IF entries[i].applyUrl # "" THEN entries[i].applyUrl
                               ELSE built(entries[i].id),
                    description |-> joined(descParts(entries[i])),
                    source |-> source]],
               LAMBDA job : job.title # EmptyText))

\* A parsed JSON value given to parseJobJson is null ([kind |-> "null"]), an
\* object ([kind |-> "object", jobsKind, items], with its jobs property absent,
\* a number or an array of items) or an array ([kind |-> "array", items]).

\* const jobList = json?.jobs || [] (Greenhouse, Ashby);
\* Array.isArray(json) ? json : [] (Lever);
\* Array.isArray(json) ? json : (json?.jobs || json?.data || []) (Rippling).
\* A jobs property of kind "number" is a truthy value that is not iterable.
JobList(json, source) ==
    CASE json.kind = "array" -> IF source \in {"Lever", "Rippling"} THEN json.items ELSE <<>>
      [] source = "Lever" -> <<>>
      [] json.jobsKind = "array" -> json.items
      [] OTHER -> <<>>

\* The TypeError of an API adapter: for...of over a job list that is not
\* iterable, entry.title of a null entry, text.replace of a truthy title that
\* is no string (cleanText).
ApiRaises(json, source) ==
    \/ json.kind = "object" /\ source # "Lever" /\ json.jobsKind = "number"
    \/ \E i \in 1..Len(JobList(json, source)) :
          JobList(json, source)[i].isNull \/ JobList(json, source)[i].titleKind = "number"

\* parseJobJson(json, source, org)
ParseJobJson(json, source, org) ==
    LET returned(jobs) == [raised |-> FALSE, jobs |-> jobs]
        key == DispatchKey(source)
        named == {i \in 1..Len(SourceNames) : CaseLabel(i) = key}
        name == SourceNames[CHOOSE i \in named : TRUE]
    IN IF json.kind = "null" THEN returned(<<>>)
       ELSE IF named = {} \/ name \notin {"Greenhouse", "Lever", "Ashby", "Rippling"}
            THEN returned(<<>>)
            ELSE IF ApiRaises(json, name) THEN [raised |-> TRUE, jobs |-> <<>>]
            ELSE IF name = "Greenhouse"
                 THEN returned(ParseGreenhouseApi(JobList(json, name), org))
                 ELSE returned(ParseListingApi(JobList(json, name), org, name))

----------------------------------------------------------------------------
(* Links: the canonicalization functions and what each adapter makes of the  *)
(* href of a card.  A URL is a sequence of one-character strings.            *)

\* The string literals of the link handling, as written in the code
Lit ==
    [
       \* https://
       HTTPS |->
           <<"h", "t", "t", "p", "s", ":", "/", "/">>,
       \* http://
       HTTP |->
           <<"h", "t", "t", "p", ":", "/", "/">>,
       \* https://www.linkedin.com
       LINKEDIN_ORIGIN |->
           <<"h", "t", "t", "p", "s", ":", "/", "/", "w", "w", "w", ".", "l", "i", "n", "k", "e", "d", "i", "n", ".", "c", "o", "m">>,
       \* https://www.linkedin.com/jobs/view/
       LINKEDIN_VIEW_WWW |->
           <<"h", "t", "t", "p", "s", ":", "/", "/", "w", "w", "w", ".", "l", "i", "n", "k", "e", "d", "i", "n", ".", "c", "o", "m", "/", "j", "o", "b", "s", "/", "v", "i", "e", "w", "/">>,
       \* https://linkedin.com/jobs/view/
       LINKEDIN_VIEW |->
           <<"h", "t", "t", "p", "s", ":", "/", "/", "l", "i", "n", "k", "e", "d", "i", "n", ".", "c", "o", "m", "/", "j", "o", "b", "s", "/", "v", "i", "e", "w", "/">>,
       \* https://uk.indeed.com
       INDEED_ORIGIN |->
           <<"h", "t", "t", "p", "s", ":", "/", "/", "u", "k", ".", "i", "n", "d", "e", "e", "d", ".", "c", "o", "m">>,
       \* https://uk.indeed.com/viewjob?jk=
       INDEED_VIEWJOB |->
           <<"h", "t", "t", "p", "s", ":", "/", "/", "u", "k", ".", "i", "n", "d", "e", "e", "d", ".", "c", "o", "m", "/", "v", "i", "e", "w", "j", "o", "b", "?", "j", "k", "=">>,
       \* https://otta.com
       OTTA_ORIGIN |->
           <<"h", "t", "t", "p", "s", ":", "/", "/", "o", "t", "t", "a", ".", "c", "o", "m">>,
       \* https://boards.greenhouse.io
       GREENHOUSE_ORIGIN |->
           <<"h", "t", "t", "p", "s", ":", "/", "/", "b", "o", "a", "r", "d", "s", ".", "g", "r", "e", "e", "n", "h", "o", "u", "s", "e", ".", "i", "o">>,
       \* https://jobs.ashbyhq.com
       ASHBY_ORIGIN |->
           <<"h", "t", "t", "p", "s", ":", "/", "/", "j", "o", "b", "s", ".", "a", "s", "h", "b", "y", "h", "q", ".", "c", "o", "m">>,
       \* https://ats.rippling.com
       RIPPLING_ORIGIN |->
           <<"h", "t", "t", "p", "s", ":", "/", "/", "a", "t", "s", ".", "r", "i", "p", "p", "l", "i", "n", "g", ".", "c", "o", "m">>,
       \* /jobs/view/
       SEL_VIEW |->
           <<"/", "j", "o", "b", "s", "/", "v", "i", "e", "w", "/">>,
       \* /jobs/collections/
       SEL_COLLECTIONS |->
           <<"/", "j", "o", "b", "s", "/", "c", "o", "l", "l", "e", "c", "t", "i", "o", "n", "s", "/">>,
       \* /jobs/
       SEL_JOBS |->
           <<"/", "j", "o", "b", "s", "/">>,
       \* lever.co
       SEL_LEVER |->
           <<"l", "e", "v", "e", "r", ".", "c", "o">>,
       \* https://jobs.lever.co
       LEVER_ORIGIN |->
           <<"h", "t", "t", "p", "s", ":", "/", "/", "j", "o", "b", "s", ".", "l", "e", "v", "e", "r", ".", "c", "o">>
    ]

\* String.prototype.startsWith
StartsWith(t, p) == Len(t) >= Len(p) /\ SubSeq(t, 1, Len(p)) = p

\* The first position of t that holds one of the characters, Len(t) + 1 if none
IndexOfAny(t, chars) ==
    IF \E i \in 1..Len(t) : t[i] \in chars
    THEN CHOOSE i \in 1..Len(t) : t[i] \in chars /\ \A j \in 1..(i - 1) : t[j] \notin chars
    ELSE Len(t) + 1

\* new URL(url) for http and https URLs: ok is FALSE when the constructor
\* throws (no scheme, no host); the scheme and the host are lower-cased, the
\* pathname is '/' when the URL has none, search is what follows the '?'.
UrlScheme(lower) ==
    IF StartsWith(lower, Lit.HTTPS) THEN Lit.HTTPS
    ELSE IF StartsWith(lower, Lit.HTTP) THEN Lit.HTTP ELSE <<>>

UrlParts(scheme, host, noHash, pathEnd) ==
    [ok |-> scheme # <<>> /\ host # <<>>,
     origin |-> scheme \o host,
     pathname |-> IF pathEnd = 1 THEN <<"/">> ELSE SubSeq(noHash, 1, pathEnd - 1),
     search |-> SubSeq(noHash, pathEnd + 1, Len(noHash))]

UrlAfterHost(scheme, host, noHash) ==
    UrlParts(scheme, host, noHash, IndexOfAny(noHash, {"?"}))

UrlAfterScheme(scheme, rest, hostEnd) ==
    LET tail == SubSeq(rest, hostEnd, Len(rest))
    IN UrlAfterHost(scheme, ToLowerCase(SubSeq(rest, 1, hostEnd - 1)),
                    SubSeq(tail, 1, IndexOfAny(tail, {"#"}) - 1))

UrlFrom(url, scheme) ==
    LET rest == SubSeq(url, Len(scheme) + 1, Len(url))
    IN UrlAfterScheme(scheme, rest, IndexOfAny(rest, {"/", "?", "#"}))

ParseUrl(url) == UrlFrom(url, UrlScheme(ToLowerCase(url)))

\* parsed.searchParams.get('jk'): the value of the first jk pair, with %26,
\* %2B and '+' decoded; NullText when there is no such pair
RECURSIVE FormDecode(_)
FormDecode(v) ==
    IF v = <<>> THEN <<>>
    ELSE IF StartsWith(v, <<"%", "2", "6">>) THEN <<"&">> \o FormDecode(SubSeq(v, 4, Len(v)))
    ELSE IF StartsWith(v, <<"%", "2", "B">>) THEN <<"+">> \o FormDecode(SubSeq(v, 4, Len(v)))
    ELSE IF Head(v) = "+" THEN <<" ">> \o FormDecode(Tail(v))
    ELSE <<Head(v)>> \o FormDecode(Tail(v))

SearchParamsGetJk(search) ==
    LET starts == {i \in 1..Len(search) :
                      /\ i = 1 \/ search[i - 1] = "&"
                      /\ StartsWith(SubSeq(search, i, Len(search)), <<"j", "k", "=">>)}
        first == CHOOSE i \in starts : \A j \in starts : i <= j
        after == SubSeq(search, first + 3, Len(search))
    IN IF starts = {} THEN NullText
       ELSE FormDecode(SubSeq(after, 1, IndexOfAny(after, {"&"}) - 1))

\* normalizeLinkedInUrl.  url.match(/(https:\/\/(?:www\.)?linkedin\.com\/jobs\/view\/\d+)/)
\* is the first occurrence of one of the two prefixes followed by digits, with
\* all the digits that follow.
Digits == {"0", "1", "2", "3", "4", "5", "6", "7", "8", "9"}

LinkedInPrefixAt(url, i) ==
    LET from == SubSeq(url, i, Len(url))
    IN IF StartsWith(from, Lit.LINKEDIN_VIEW_WWW) THEN Lit.LINKEDIN_VIEW_WWW
       ELSE IF StartsWith(from, Lit.LINKEDIN_VIEW) THEN Lit.LINKEDIN_VIEW
       ELSE <<>>

\* return match[1]: the prefix and the run of digits at the head of number
LinkedInView(prefix, number) ==
    LET run == IF \E i \in 1..Len(number) : number[i] \notin Digits
               THEN (CHOOSE i \in 1..Len(number) :
                         number[i] \notin Digits
                         /\ \A j \in 1..(i - 1) : number[j] \in Digits) - 1
               ELSE Len(number)
    IN prefix \o SubSeq(number, 1, run)

LinkedInMatch(url, at, prefix) ==
    LinkedInView(prefix, SubSeq(url, at + Len(prefix), Len(url)))

\* try { new URL(url) ... origin + pathname } catch { return url }
LinkedInFallback(url, parsed) ==
    IF parsed.ok THEN parsed.origin \o parsed.pathname ELSE url

LinkedInFrom(url, matches) ==
    IF matches # {}
    THEN LinkedInMatch(url, CHOOSE i \in matches : \A j \in matches : i <= j,
                       LinkedInPrefixAt(url, CHOOSE i \in matches : \A j \in matches : i <= j))
    ELSE LinkedInFallback(url, ParseUrl(url))

LinkedInMatches(url) ==
    {i \in 1..Len(url) :
        /\ LinkedInPrefixAt(url, i) # <<>>
        /\ i + Len(LinkedInPrefixAt(url, i)) <= Len(url)
        /\ url[i + Len(LinkedInPrefixAt(url, i))] \in Digits}

NormalizeLinkedInUrl(href) ==
    IF href = <<>> THEN <<>>
    ELSE IF Head(href) = "/"
    THEN LinkedInFrom(Lit.LINKEDIN_ORIGIN \o href, LinkedInMatches(Lit.LINKEDIN_ORIGIN \o href))
    ELSE LinkedInFrom(href, LinkedInMatches(href))

\* normalizeIndeedUrl(url, jobId)
IndeedFromJk(url, ok, found, jobId) ==
    LET jk == IF found = NullText \/ found = <<>> THEN jobId ELSE found
    IN IF ~ok THEN url
       ELSE IF jk # <<>> THEN Lit.INDEED_VIEWJOB \o jk
       ELSE url

IndeedFromParsed(url, parsed, jobId) ==
    IndeedFromJk(url, parsed.ok, SearchParamsGetJk(parsed.search), jobId)

NormalizeIndeedUrl(href, jobId) ==
    IF href = <<>> THEN (IF jobId # <<>> THEN Lit.INDEED_VIEWJOB \o jobId ELSE <<>>)
    ELSE IF Head(href) = "/"
    THEN IndeedFromParsed(Lit.INDEED_ORIGIN \o href, ParseUrl(Lit.INDEED_ORIGIN \o href), jobId)
    ELSE IndeedFromParsed(href, ParseUrl(href), jobId)

\* normalizeOttaUrl
NormalizeOttaUrl(href) ==
    IF href = <<>> THEN <<>>
    ELSE IF Head(href) = "/" THEN Lit.OTTA_ORIGIN \o href ELSE href

\* jobUrl of a posting, from the href of the link that the adapter's selector
\* finds in a card (<<>>: the link has no href) and, for Indeed, the card's
\* data-jk.  Greenhouse, Ashby and Rippling put their origin before an href
\* that does not start with 'http'; Lever keeps the href.
AdapterJobUrl(source, href, jobId) ==
    LET promoted(origin) ==
            IF href # <<>> /\ ~StartsWith(href, <<"h", "t", "t", "p">>)
            THEN origin \o href ELSE href
    IN CASE source = "LinkedIn" -> NormalizeLinkedInUrl(href)
         [] source = "Indeed" -> NormalizeIndeedUrl(href, jobId)
         [] source = "Otta" -> NormalizeOttaUrl(href)
         [] source = "Greenhouse" -> promoted(Lit.GREENHOUSE_ORIGIN)
         [] source = "Lever" -> href
         [] source = "Ashby" -> promoted(Lit.ASHBY_ORIGIN)
         [] source = "Rippling" -> promoted(Lit.RIPPLING_ORIGIN)

----------------------------------------------------------------------------
(* Scoring engine *)

WEIGHTS ==
    [GREEN_FLAG_TITLE |-> 25, GREEN_FLAG_COMPANY |-> 15,
     GREEN_FLAG_LOCATION |-> 10, GREEN_FLAG_DESCRIPTION |-> 5,
     RED_FLAG_TITLE |-> 0 - 30, RED_FLAG_COMPANY |-> 0 - 20,
     RED_FLAG_LOCATION |-> 0 - 50, RED_FLAG_DESCRIPTION |-> 0 - 10]

\* A keyword flag as stored in a zone: a JSON value, a string or not.
StrFlag(s) == [type |-> "string", s |-> s]
NumFlag == [type |-> "number", s |-> <<>>]

FlagPy == StrFlag(<<"p", "y">>)
FlagOn == StrFlag(<<"O", "N">>)

ScoreState(score, green, red) == [score |-> score, greenFlags |-> green, redFlags |-> red]

\* One "if (fieldLower.includes(flagLower)) { totalScore += w; push(...) }"
MatchField_CaseSensitive(st, flag, text, field, points, isGreen) ==
    IF Includes(OrEmpty(text), flag.s)
    THEN LET entry == [flag |-> flag.s, field |-> field, points |-> points]
         IN IF isGreen
            THEN ScoreState(st.score + points, Append(st.greenFlags, entry), st.redFlags)
            ELSE ScoreState(st.score + points, st.greenFlags, Append(st.redFlags, entry))
    ELSE st
MatchField(st, flag, text, field, points, isGreen) ==
    IF Includes(ToLowerCase(OrEmpty(text)), ToLowerCase(flag.s))
    THEN LET entry == [flag |-> flag.s, field |-> field, points |-> points]
         IN IF isGreen
            THEN ScoreState(st.score + points, Append(st.greenFlags, entry), st.redFlags)
            ELSE ScoreState(st.score + points, st.greenFlags, Append(st.redFlags, entry))
    ELSE st

GreenFlagStep(st, flag, job) ==
    LET a == MatchField(st, flag, job.title, "title", WEIGHTS.GREEN_FLAG_TITLE, TRUE)
        b == MatchField(a, flag, job.companyName, "company", WEIGHTS.GREEN_FLAG_COMPANY, TRUE)
        c == MatchField(b, flag, job.location, "location", WEIGHTS.GREEN_FLAG_LOCATION, TRUE)
    IN MatchField(c, flag, job.description, "description", WEIGHTS.GREEN_FLAG_DESCRIPTION, TRUE)

RedFlagStep(st, flag, job) ==
    LET a == MatchField(st, flag, job.title, "title", WEIGHTS.RED_FLAG_TITLE, FALSE)
        b == MatchField(a, flag, job.companyName, "company", WEIGHTS.RED_FLAG_COMPANY, FALSE)
        c == MatchField(b, flag, job.location, "location", WEIGHTS.RED_FLAG_LOCATION, FALSE)
    IN MatchField(c, flag, job.description, "description", WEIGHTS.RED_FLAG_DESCRIPTION, FALSE)

RECURSIVE GreenLoop(_, _, _)
GreenLoop(st, flags, job) ==
    IF flags = <<>> THEN st
    ELSE GreenLoop(GreenFlagStep(st, Head(flags), job), Tail(flags), job)

RECURSIVE RedLoop(_, _, _)
RedLoop(st, flags, job) ==
    IF flags = <<>> THEN st
    ELSE RedLoop(RedFlagStep(st, Head(flags), job), Tail(flags), job)

\* for (const zone of zones): every zone adds to the same totalScore and lists
RECURSIVE ZoneLoop_BestZone(_, _, _)
ZoneLoop_BestZone(st, zs, job) ==
    IF zs = <<>> THEN st
    ELSE LET one == RedLoop(GreenLoop(ScoreState(0, <<>>, <<>>), Head(zs).greenFlags, job),
                            Head(zs).redFlags, job)
             rest == ZoneLoop_BestZone(st, Tail(zs), job)
         IN IF one.score >= rest.score THEN one ELSE rest

RECURSIVE ZoneLoop(_, _, _)
ZoneLoop(st, zs, job) ==
    IF zs = <<>> THEN st
    ELSE ZoneLoop(RedLoop(GreenLoop(st, Head(zs).greenFlags, job), Head(zs).redFlags, job),
                  Tail(zs), job)

\* prisma.radarZone.findMany({ where: { active: true } })
ActiveZones(zs) == SelectSeq(zs, LAMBDA z : z.active)

\* flag.toLowerCase() on a flag that is not a string raises a TypeError
ScoreThrows(zs) ==
    \E i \in 1..Len(zs) :
        \/ \E j \in 1..Len(zs[i].greenFlags) : zs[i].greenFlags[j].type # "string"
        \/ \E j \in 1..Len(zs[i].redFlags) : zs[i].redFlags[j].type # "string"

\* calculateScore(job) against the zone table zs as it is when the read resolves
CalculateScore(job, zs) ==
    LET active == ActiveZones(zs)
    IN IF Len(active) = 0
       THEN [throws |-> FALSE, score |-> 0, matches |-> [greenFlags |-> <<>>, redFlags |-> <<>>]]
       ELSE IF ScoreThrows(active)
       THEN [throws |-> TRUE, score |-> 0, matches |-> [greenFlags |-> <<>>, redFlags |-> <<>>]]
       ELSE LET st == ZoneLoop(ScoreState(0, <<>>, <<>>), active, job)
            IN [throws |-> FALSE, score |-> st.score,
                matches |-> [greenFlags |-> st.greenFlags, redFlags |-> st.redFlags]]

\* { ...job, matchScore: score, scoreMatches: matches }
Scored(job, res) ==
    [title |-> job.title, companyName |-> job.companyName, location |-> job.location,
     description |-> job.description, jobUrl |-> job.jobUrl, source |-> job.source,
     matchScore |-> res.score, scoreMatches |-> res.matches]

\* Array.prototype.sort((a, b) => b.matchScore - a.matchScore): stable, descending
RECURSIVE InsertByScore(_, _)
InsertByScore(sorted, job) ==
    IF sorted = <<>> THEN <<job>>
    ELSE IF Head(sorted).matchScore >= job.matchScore
         THEN <<Head(sorted)>> \o InsertByScore(Tail(sorted), job)
         ELSE <<job>> \o sorted

RECURSIVE SortByScore(_)
SortByScore(jobs) ==
    IF jobs = <<>> THEN <<>>
    ELSE InsertByScore(SortByScore(SubSeq(jobs, 1, Len(jobs) - 1)), jobs[Len(jobs)])

----------------------------------------------------------------------------
(* RadarZone table and its configuration routes *)

DefaultEnabledSources == <<"LinkedIn", "Indeed">>

\* Body of POST /api/radar-zones as the zone editor sends it.  uiSources is the
\* enabledSources list the editor holds for the zone and sends with the body.
ZoneBody(name, title, location, green, red, active, uiSources) ==
    [name |-> name, searchTitle |-> title, searchLocation |-> location,
     greenFlags |-> green, redFlags |-> red, active |-> active,
     uiSources |-> uiSources]

BodyMixed == ZoneBody("mixed", "dev", "ldn", <<FlagPy>>, <<FlagOn>>, TRUE, {"LinkedIn"})
BodyNoLocation == ZoneBody("noloc", "dev", "", <<FlagPy>>, <<>>, TRUE, {"LinkedIn", "Indeed"})
BodyNoTitle == ZoneBody("notitle", "", "ldn", <<>>, <<FlagOn>>, TRUE, {"LinkedIn", "Indeed"})
BodyNew == ZoneBody("New Zone", "", "", <<>>, <<>>, TRUE, {"LinkedIn", "Indeed"})
BodyBadFlag == ZoneBody("bad", "dev", "ldn", <<NumFlag>>, <<>>, TRUE, {"LinkedIn", "Indeed"})
BodyInactive == ZoneBody("off", "qa", "nyc", <<FlagOn>>, <<FlagPy>>, FALSE, {"Indeed"})

ZoneBodies ==
    {BodyMixed, BodyNoLocation, BodyNoTitle, BodyNew, BodyBadFlag, BodyInactive}

\* The row prisma.radarZone.create stores for a body.  The handler does not
\* read enabledSources from the body: the column keeps its default.
ZoneRow(id, body) ==
    [id |-> id, name |-> body.name,
     searchTitle |-> body.searchTitle, searchLocation |-> body.searchLocation,
     greenFlags |-> body.greenFlags, redFlags |-> body.redFlags,
     active |-> body.active,
     enabledSources |-> DefaultEnabledSources,
     uiSources |-> body.uiSources]

\* Zone tables the configuration routes have produced before the pipeline runs.
InitZoneTables ==
    { <<>>,
      <<ZoneRow(1, BodyNoLocation), ZoneRow(2, BodyNoTitle), ZoneRow(3, BodyNew),
        ZoneRow(4, BodyInactive), ZoneRow(5, BodyMixed)>>,
      <<ZoneRow(1, BodyBadFlag)>> }

\* Bodies of PATCH /api/radar-zones/:id: the fields present and their values.
ZonePatch(fields, body) == [fields |-> fields, body |-> body]

ZonePatches ==
    { ZonePatch({"active"}, BodyInactive),
      ZonePatch({"searchLocation"}, BodyNoLocation),
      ZonePatch({"greenFlags", "redFlags"}, BodyBadFlag),
      ZonePatch({"greenFlags", "redFlags"}, BodyMixed),
      ZonePatch({"name", "searchTitle", "searchLocation", "greenFlags", "redFlags",
                 "active", "enabledSources"}, BodyMixed) }

ApplyZonePatch(z, p) ==
    [id |-> z.id,
     name |-> IF "name" \in p.fields THEN p.body.name ELSE z.name,
     searchTitle |-> IF "searchTitle" \in p.fields THEN p.body.searchTitle ELSE z.searchTitle,
     searchLocation |->
        IF "searchLocation" \in p.fields THEN p.body.searchLocation ELSE z.searchLocation,
     greenFlags |-> IF "greenFlags" \in p.fields THEN p.body.greenFlags ELSE z.greenFlags,
     redFlags |-> IF "redFlags" \in p.fields THEN p.body.redFlags ELSE z.redFlags,
     active |-> IF "active" \in p.fields THEN p.body.active ELSE z.active,
     enabledSources |-> z.enabledSources,
     uiSources |-> IF "enabledSources" \in p.fields THEN p.body.uiSources ELSE z.uiSources]

RemoveAt(seq, i) == SubSeq(seq, 1, i - 1) \o SubSeq(seq, i + 1, Len(seq))

CreateZone(body) ==
    /\ envOps < MaxEnvOps
    /\ zones' = Append(zones, ZoneRow(nextId, body))
    /\ nextId' = nextId + 1
    /\ envOps' = envOps + 1
    /\ UNCHANGED <<leads, req, sw, runs, call>>

PatchZone(i, p) ==
    /\ envOps < MaxEnvOps
    /\ i \in 1..Len(zones)
    /\ zones' = [zones EXCEPT ![i] = ApplyZonePatch(zones[i], p)]
    /\ envOps' = envOps + 1
    /\ UNCHANGED <<leads, nextId, req, sw, runs, call>>

DeleteZone(i) ==
    /\ envOps < MaxEnvOps
    /\ i \in 1..Len(zones)
    /\ zones' = RemoveAt(zones, i)
    /\ envOps' = envOps + 1
    /\ UNCHANGED <<leads, nextId, req, sw, runs, call>>

----------------------------------------------------------------------------
(* JobLead table *)

DefaultPriority == 3
NoCompany == "none"

\* CREATE UNIQUE INDEX "JobLead_jobUrl_key": an insert or update that would give
\* a second row the same jobUrl is rejected with P2002.
JobUrlTaken_NoIndex(rows, url, selfId) == FALSE
JobUrlTaken(rows, url, selfId) == \E l \in rows : l.jobUrl = url /\ l.id # selfId

\* prisma.jobLead.findUnique({ where: { jobUrl } })
FindUnique(rows, url) == {l \in rows : l.jobUrl = url}

LeadRow(id, data) ==
    [id |-> id, title |-> data.title, companyName |-> data.companyName,
     location |-> data.location, jobUrl |-> data.jobUrl,
     description |-> data.description, source |-> data.source,
     matchScore |-> data.matchScore, status |-> data.status,
     priority |-> DefaultPriority, companyId |-> NoCompany]

\* The data object both pipelines pass to prisma.jobLead.create
PipelineLeadData_DefaultScore(job) ==
    [title |-> job.title, companyName |-> job.companyName,
     location |-> OrNull(job.location), jobUrl |-> job.jobUrl,
     description |-> OrNull(job.description), source |-> job.source,
     matchScore |-> 0, status |-> "RADAR_NEW"]
PipelineLeadData(job) ==
    [title |-> job.title, companyName |-> job.companyName,
     location |-> OrNull(job.location), jobUrl |-> job.jobUrl,
     description |-> OrNull(job.description), source |-> job.source,
     matchScore |-> job.matchScore, status |-> "RADAR_NEW"]

\* Bodies of POST /api/leads
DirectLeadBodies ==
    { [title |-> <<"q">>, companyName |-> <<"x">>, location |-> NullText,
       jobUrl |-> "u1", description |-> NullText, source |-> "Manual",
       matchScore |-> 0, status |-> "APPLIED"] }

\* Bodies of PATCH /api/leads/:id
LeadPatches ==
    { [field |-> "status", value |-> "SHORTLISTED"],
      [field |-> "jobUrl", value |-> "u2"] }

ApplyLeadPatch(l, p) ==
    IF p.field = "status" THEN [l EXCEPT !.status = p.value]
    ELSE [l EXCEPT !.jobUrl = p.value]

CreateLeadDirect(body) ==
    /\ envOps < MaxEnvOps
    /\ envOps' = envOps + 1
    /\ IF JobUrlTaken(leads, body.jobUrl, 0)
       THEN UNCHANGED <<leads, nextId>>
       ELSE /\ leads' = leads \cup {LeadRow(nextId, body)}
            /\ nextId' = nextId + 1
    /\ UNCHANGED <<zones, req, sw, runs, call>>

PatchLead(l, p) ==
    /\ envOps < MaxEnvOps
    /\ l \in leads
    /\ envOps' = envOps + 1
    /\ IF p.field = "jobUrl" /\ JobUrlTaken(leads, p.value, l.id)
       THEN UNCHANGED leads
       ELSE leads' = (leads \ {l}) \cup {ApplyLeadPatch(l, p)}
    /\ UNCHANGED <<zones, nextId, req, sw, runs, call>>

DeleteLead(l) ==
    /\ envOps < MaxEnvOps
    /\ l \in leads
    /\ envOps' = envOps + 1
    /\ leads' = leads \ {l}
    /\ UNCHANGED <<zones, nextId, req, sw, runs, call>>

----------------------------------------------------------------------------
(* Ingestion entrypoint: POST /api/radar/ingest *)

NoStats == [parsed |-> 0 - 1, new |-> 0 - 1, duplicates |-> 0 - 1]
NoResponse == [status |-> 0, stats |-> NoStats, leads |-> <<>>]
ErrorResponse(status) == [status |-> status, stats |-> NoStats, leads |-> <<>>]
SuccessResponse(parsed, new, duplicates, saved) ==
    [status |-> 200,
     stats |-> [parsed |-> parsed, new |-> new, duplicates |-> duplicates],
     leads |-> saved]

\* created, conflicts, saveErrors, html and seenDone are observations of the run,
\* not variables of the handler: the rows this request inserted, the unique
\* conflicts and other store errors it caught, the document it was given, and
\* the requests that had already been answered when it arrived.
IdleRequest ==
    [pc |-> "idle", html |-> HtmlNull, parsed |-> <<>>, acc |-> <<>>, k |-> 0,
     scored |-> <<>>, i |-> 0, newCount |-> 0, duplicateCount |-> 0,
     savedLeads |-> <<>>, response |-> NoResponse,
     created |-> {}, conflicts |-> 0, saveErrors |-> 0, seenDone |-> {}]

Respond(st, response) == [st EXCEPT !.pc = "done", !.response = response]

IngestNextJob_StopAfterFailure(st) ==
    IF st.i < Len(st.scored) /\ st.saveErrors = 0
    THEN [st EXCEPT !.pc = "find", !.i = st.i + 1]
    ELSE Respond(st, SuccessResponse(Len(st.parsed), st.newCount, st.duplicateCount,
                                     st.savedLeads))

\* Loop head of "for (const job of scoredJobs)": the next findUnique, or the
\* response once every job has been handled.
IngestNextJob(st) ==
    IF st.i < Len(st.scored)
    THEN [st EXCEPT !.pc = "find", !.i = st.i + 1]
    ELSE Respond(st, SuccessResponse(Len(st.parsed), st.newCount, st.duplicateCount,
                                     st.savedLeads))

\* if (!rawHtml) return res.status(400)
RawHtmlMissing_NotString(html) == ~html.truthy \/ html.type # "string"
RawHtmlMissing(html) == ~html.truthy

\* if (existing) { duplicateCount++; continue; }
IngestOnExisting_NoCount(st) == st
IngestOnExisting(st) == [st EXCEPT !.duplicateCount = st.duplicateCount + 1]

\* Neither pipeline writes to the store when findUnique finds the posting's
\* jobUrl: the posting is dropped and the row stays as it is.
DiscardDuplicate_Merge(rows, job) ==
    {IF l.jobUrl = job.jobUrl
     THEN [l EXCEPT !.title = job.title, !.matchScore = job.matchScore,
                    !.status = "RADAR_NEW"]
     ELSE l : l \in rows}
DiscardDuplicate(rows, job) == rows

IngestStart(r, html, source) ==
    /\ req[r].pc = "idle"
    /\ r = "r2" => req["r1"].pc # "idle"        \* requests are numbered as they arrive
    /\ runs < MaxRuns
    /\ runs' = runs + 1
    /\ LET parsed == ParseJobHtml(html, source)
           st == [req[r] EXCEPT !.html = html,
                                !.seenDone = {q \in Reqs : req[q].pc = "done"}]
       IN req' = [req EXCEPT ![r] =
                    IF RawHtmlMissing(html)
                    THEN Respond(st, ErrorResponse(400))
                    ELSE IF Len(parsed) = 0
                    THEN Respond(st, SuccessResponse(0, 0, 0, <<>>))
                    ELSE [st EXCEPT !.pc = "score", !.parsed = parsed, !.k = 1]]
    /\ UNCHANGED <<zones, leads, nextId, sw, envOps, call>>

\* One calculateScore of scoreJobs; after the last one the sort, then the first
\* findUnique is issued.  An exception reaches the handler's outer catch.
IngestScore(r) ==
    /\ req[r].pc = "score"
    /\ LET st == req[r]
           res == CalculateScore(st.parsed[st.k], zones)
           acc == Append(st.acc, Scored(st.parsed[st.k], res))
       IN req' = [req EXCEPT ![r] =
                    IF res.throws
                    THEN Respond(st, ErrorResponse(500))
                    ELSE IF st.k < Len(st.parsed)
                    THEN [st EXCEPT !.acc = acc, !.k = st.k + 1]
                    ELSE IngestNextJob([st EXCEPT !.acc = acc,
                                                  !.scored = SortByScore(acc), !.i = 0])]
    /\ UNCHANGED <<zones, leads, nextId, sw, runs, envOps, call>>

IngestFind(r, fail) ==
    /\ req[r].pc = "find"
    /\ fail => envOps < MaxEnvOps
    /\ envOps' = IF fail THEN envOps + 1 ELSE envOps
    /\ LET st == req[r]
           existing == FindUnique(leads, st.scored[st.i].jobUrl)
       IN req' = [req EXCEPT ![r] =
                    IF fail
                    THEN IngestNextJob([st EXCEPT !.saveErrors = st.saveErrors + 1])
                    ELSE IF existing # {}
                    THEN IngestNextJob(IngestOnExisting(st))
                    ELSE [st EXCEPT !.pc = "create"]]
    /\ leads' = IF ~fail /\ FindUnique(leads, req[r].scored[req[r].i].jobUrl) # {}
                THEN DiscardDuplicate(leads, req[r].scored[req[r].i])
                ELSE leads
    /\ UNCHANGED <<zones, nextId, sw, runs, call>>

IngestCreate(r, fail) ==
    /\ req[r].pc = "create"
    /\ fail => envOps < MaxEnvOps
    /\ envOps' = IF fail THEN envOps + 1 ELSE envOps
    /\ LET st == req[r]
           job == st.scored[st.i]
           lead == LeadRow(nextId, PipelineLeadData(job))
       IN IF fail
          THEN /\ req' = [req EXCEPT ![r] =
                            IngestNextJob([st EXCEPT !.saveErrors = st.saveErrors + 1])]
               /\ UNCHANGED <<leads, nextId>>
          ELSE IF JobUrlTaken(leads, job.jobUrl, 0)
          THEN /\ req' = [req EXCEPT ![r] =
                            IngestNextJob([st EXCEPT
                                !.duplicateCount = st.duplicateCount + 1,
                                !.conflicts = st.conflicts + 1])]
               /\ UNCHANGED <<leads, nextId>>
          ELSE /\ leads' = leads \cup {lead}
               /\ nextId' = nextId + 1
               /\ req' = [req EXCEPT ![r] =
                            IngestNextJob([st EXCEPT
                                !.savedLeads = Append(st.savedLeads, lead),
                                !.newCount = st.newCount + 1,
                                !.created = st.created \cup {lead.id}])]
    /\ UNCHANGED <<zones, sw, runs, call>>

----------------------------------------------------------------------------
(* Discovery sweep: performDiscoverySweep *)

\* encodeURIComponent is injective: a search URL is identified by the board and
\* the two encoded parameters.
GenerateSearchUrls_IndeedFirst(title, location) ==
    << [source |-> "Indeed", url |-> <<"uk.indeed.com/jobs", title, location>>],
       [source |-> "LinkedIn", url |-> <<"linkedin.com/jobs/search", title, location>>] >>
GenerateSearchUrls(title, location) ==
    << [source |-> "LinkedIn", url |-> <<"linkedin.com/jobs/search", title, location>>],
       [source |-> "Indeed", url |-> <<"uk.indeed.com/jobs", title, location>>] >>

\* if (!zone.searchTitle || !zone.searchLocation) continue;
SkipZone_TitleOnly(zone) == zone.searchTitle = ""
SkipZone_Both(zone) == zone.searchTitle = "" /\ zone.searchLocation = ""
SkipZone(zone) == zone.searchTitle = "" \/ zone.searchLocation = ""

NoResult == [processed |-> 0 - 1, new |-> 0 - 1]

\* built, fetched, counted, created, conflicts, saveErrors, fetchFailed and thrown are
\* observations of the run, not variables of the function: the (zone, source)
\* pairs a search URL was built for, those whose fetch was started, the zones
\* whose postings were counted, the rows this sweep inserted, the unique
\* conflicts and other store errors it caught, whether a fetch has failed, and
\* the call whose exception left the function.
\* browser is the session of the fetch in progress ("none": not launched or
\* closed; "open"; "leaked": its close failed); pending is what the try or the
\* catch block of the fetch is about to return while the finally block runs.
NoFetch == [kind |-> "none", html |-> HtmlNull]

IdleSweep ==
    [pc |-> "idle", activeZones |-> <<>>, zi |-> 0, tasks |-> <<>>, ti |-> 0,
     parsed |-> <<>>, acc |-> <<>>, k |-> 0, scored |-> <<>>, ji |-> 0,
     totalProcessed |-> 0, totalNew |-> 0, result |-> NoResult,
     built |-> {}, fetched |-> {}, counted |-> {}, created |-> {},
     conflicts |-> 0, saveErrors |-> 0, fetchFailed |-> FALSE, thrown |-> "none",
     browser |-> "none", pending |-> NoFetch]

\* Loop head of "for (const zone of activeZones)": skips zones until one is
\* swept and its first fetch is started, or returns the counters.
RECURSIVE EnterZone(_, _)
EnterZone(st, z) ==
    IF z > Len(st.activeZones)
    THEN [st EXCEPT !.pc = "done",
                    !.result = [processed |-> st.totalProcessed, new |-> st.totalNew]]
    ELSE LET zone == st.activeZones[z]
             tasks == GenerateSearchUrls(zone.searchTitle, zone.searchLocation)
         IN IF SkipZone(zone)
            THEN EnterZone(st, z + 1)
            ELSE [st EXCEPT !.pc = "fetch", !.zi = z, !.tasks = tasks, !.ti = 1,
                     !.built = st.built \cup
                               {<<zone.id, tasks[j].source>> : j \in 1..Len(tasks)},
                     !.fetched = st.fetched \cup {<<zone.id, tasks[1].source>>}]

\* Loop head of "for (const task of searchTasks)"
NextTask(st) ==
    LET clear == [st EXCEPT !.parsed = <<>>, !.acc = <<>>, !.k = 0,
                            !.scored = <<>>, !.ji = 0]
    IN IF st.ti < Len(st.tasks)
       THEN [clear EXCEPT !.pc = "fetch", !.ti = st.ti + 1,
                !.fetched = st.fetched \cup
                            {<<st.activeZones[st.zi].id, st.tasks[st.ti + 1].source>>}]
       ELSE EnterZone(clear, st.zi + 1)

SweepNextJob_NoCount(st) ==
    IF st.ji < Len(st.scored)
    THEN [st EXCEPT !.pc = "find", !.ji = st.ji + 1,
                    !.counted = st.counted \cup {st.activeZones[st.zi].id}]
    ELSE NextTask(st)

\* Loop head of "for (const job of scoredJobs)": totalProcessed++ and the
\* findUnique of the next job, or the next task.
SweepNextJob(st) ==
    IF st.ji < Len(st.scored)
    THEN [st EXCEPT !.pc = "find", !.ji = st.ji + 1,
                    !.totalProcessed = st.totalProcessed + 1,
                    !.counted = st.counted \cup {st.activeZones[st.zi].id}]
    ELSE NextTask(st)

\* What fetchHtmlWithPuppeteer gives its caller: the page, null after a launch,
\* navigation or evaluation failure, or the exception of a failed browser.close().
FetchOutcomes ==
    {[kind |-> "page", html |-> h] : h \in FetchedPages}
        \cup {[kind |-> "null", html |-> HtmlNull],
              [kind |-> "closeThrows", html |-> HtmlNull]}

\* catch (err) { if (err.code !== 'P2002') console.error(...) }: the unique
\* conflict is swallowed, nothing is counted.
SweepOnConflict_CountsNew(st) ==
    [st EXCEPT !.conflicts = st.conflicts + 1, !.totalNew = st.totalNew + 1]
SweepOnConflict(st) == [st EXCEPT !.conflicts = st.conflicts + 1]

SweepStart(s) ==
    /\ sw[s].pc = "idle"
    /\ s = "s2" => sw["s1"].pc # "idle"         \* sweeps are numbered as they start
    /\ runs < MaxRuns
    /\ runs' = runs + 1
    /\ sw' = [sw EXCEPT ![s] = [sw[s] EXCEPT !.pc = "zones"]]
    /\ UNCHANGED <<zones, leads, nextId, req, envOps, call>>

SweepZones(s) ==
    /\ sw[s].pc = "zones"
    /\ sw' = [sw EXCEPT ![s] =
                EnterZone([sw[s] EXCEPT !.activeZones = ActiveZones(zones)], 1)]
    /\ UNCHANGED <<zones, leads, nextId, req, runs, envOps, call>>

\* What performDiscoverySweep does with the outcome of the awaited fetch:
\* the exception of a failed close leaves the function, a null page skips the
\* unit, a page is parsed and, if it has postings, scored.
AfterFetch(st, out) ==
    LET parsed == ParseJobHtml(out.html, st.tasks[st.ti].source)
        back == [st EXCEPT !.pending = NoFetch,
                           !.browser = IF out.kind = "closeThrows" THEN "leaked" ELSE "none"]
    IN IF out.kind = "closeThrows"
       THEN [back EXCEPT !.pc = "aborted", !.thrown = "close"]
       ELSE IF ~out.html.truthy
       THEN NextTask([back EXCEPT !.fetchFailed = TRUE])
       ELSE IF Len(parsed) = 0
       THEN NextTask(back)
       ELSE [back EXCEPT !.pc = "score", !.parsed = parsed, !.k = 1]

\* await fetchHtmlWithPuppeteer(task.url) as one step: the steps of a fetch
\* touch nothing but its own browser.
SweepFetch(s, out) ==
    /\ sw[s].pc = "fetch"
    /\ sw' = [sw EXCEPT ![s] = AfterFetch(sw[s], out)]
    /\ UNCHANGED <<zones, leads, nextId, req, runs, envOps, call>>

\* The same fetch await by await.  puppeteer.launch: on failure the catch block
\* returns null and the finally block finds no browser to close.
SweepLaunch(s, ok) ==
    /\ sw[s].pc = "fetch"
    /\ sw' = [sw EXCEPT ![s] =
                IF ok
                THEN [sw[s] EXCEPT !.pc = "page", !.browser = "open"]
                ELSE AfterFetch(sw[s], [kind |-> "null", html |-> HtmlNull])]
    /\ UNCHANGED <<zones, leads, nextId, req, runs, envOps, call>>

\* Leaving the try block (return html) or the catch block (return null):
\* the finally block runs "if (browser) await browser.close()" on either exit.
PageExit_SuccessOnly(st, out) ==
    IF out.kind = "page"
    THEN [st EXCEPT !.pc = "close", !.pending = out]
    ELSE [AfterFetch(st, out) EXCEPT !.browser = "open"]
PageExit(st, out) == [st EXCEPT !.pc = "close", !.pending = out]

\* newPage, setUserAgent, goto, evaluate, content: the page, or an error or
\* timeout that the catch block turns into null.
PageOutcomes ==
    {[kind |-> "page", html |-> h] : h \in FetchedPages}
        \cup {[kind |-> "null", html |-> HtmlNull]}

SweepPage(s, out) ==
    /\ sw[s].pc = "page"
    /\ sw' = [sw EXCEPT ![s] = PageExit(sw[s], out)]
    /\ UNCHANGED <<zones, leads, nextId, req, runs, envOps, call>>

\* await browser.close() in the finally block: when it rejects, its exception
\* replaces the pending return value.
SweepClose(s, ok) ==
    /\ sw[s].pc = "close"
    /\ sw' = [sw EXCEPT ![s] =
                AfterFetch(sw[s], IF ok THEN sw[s].pending
                                  ELSE [kind |-> "closeThrows", html |-> HtmlNull])]
    /\ UNCHANGED <<zones, leads, nextId, req, runs, envOps, call>>

\* One calculateScore of scoreJobs.  No handler encloses the call: an exception
\* leaves performDiscoverySweep.
SweepScore(s) ==
    /\ sw[s].pc = "score"
    /\ \E res \in {CalculateScore(sw[s].parsed[sw[s].k], zones)} :
         \E acc \in {Append(sw[s].acc, Scored(sw[s].parsed[sw[s].k], res))} :
            sw' = [sw EXCEPT ![s] =
                     IF res.throws
                     THEN [sw[s] EXCEPT !.pc = "aborted", !.thrown = "score"]
                     ELSE IF sw[s].k < Len(sw[s].parsed)
                     THEN [sw[s] EXCEPT !.acc = acc, !.k = sw[s].k + 1]
                     ELSE SweepNextJob([sw[s] EXCEPT !.acc = acc,
                                                     !.scored = SortByScore(acc),
                                                     !.ji = 0])]
    /\ UNCHANGED <<zones, leads, nextId, req, runs, envOps, call>>

SweepFind(s, fail) ==
    /\ sw[s].pc = "find"
    /\ fail => envOps < MaxEnvOps
    /\ envOps' = IF fail THEN envOps + 1 ELSE envOps
    /\ LET st == sw[s]
           existing == FindUnique(leads, st.scored[st.ji].jobUrl)
       IN sw' = [sw EXCEPT ![s] =
                    IF fail
                    THEN SweepNextJob([st EXCEPT !.saveErrors = st.saveErrors + 1])
                    ELSE IF existing # {}
                    THEN SweepNextJob(st)
                    ELSE [st EXCEPT !.pc = "create"]]
    /\ leads' = IF ~fail /\ FindUnique(leads, sw[s].scored[sw[s].ji].jobUrl) # {}
                THEN DiscardDuplicate(leads, sw[s].scored[sw[s].ji])
                ELSE leads
    /\ UNCHANGED <<zones, nextId, req, runs, call>>

SweepCreate(s, fail) ==
    /\ sw[s].pc = "create"
    /\ fail => envOps < MaxEnvOps
    /\ envOps' = IF fail THEN envOps + 1 ELSE envOps
    /\ LET st == sw[s]
           job == st.scored[st.ji]
           lead == LeadRow(nextId, PipelineLeadData(job))
       IN IF fail
          THEN /\ sw' = [sw EXCEPT ![s] =
                            SweepNextJob([st EXCEPT !.saveErrors = st.saveErrors + 1])]
               /\ UNCHANGED <<leads, nextId>>
          ELSE IF JobUrlTaken(leads, job.jobUrl, 0)
          THEN /\ sw' = [sw EXCEPT ![s] =
                            SweepNextJob(SweepOnConflict(st))]
               /\ UNCHANGED <<leads, nextId>>
          ELSE /\ leads' = leads \cup {lead}
               /\ nextId' = nextId + 1
               /\ sw' = [sw EXCEPT ![s] =
                            SweepNextJob([st EXCEPT !.totalNew = st.totalNew + 1,
                                                    !.created = st.created \cup {lead.id}])]
    /\ UNCHANGED <<zones, req, runs, call>>

----------------------------------------------------------------------------
(* The system *)

NoCall == [fn |-> "none"]

Init ==
    /\ zones \in InitZoneTables
    /\ leads = {}
    /\ nextId = Len(zones) + 1
    /\ req = [r \in Reqs |-> IdleRequest]
    /\ sw = [s \in Sweeps |-> IdleSweep]
    /\ runs = 0
    /\ envOps = 0
    /\ call = NoCall

IngestStep(r) ==
    \/ \E html \in ConcurrentHtmlValues, source \in SourceHints :
            IngestStart(r, html, source)
    \/ IngestScore(r)
    \/ \E fail \in BOOLEAN : IngestFind(r, fail)
    \/ \E fail \in BOOLEAN : IngestCreate(r, fail)

SweepStep(s) ==
    \/ SweepStart(s)
    \/ SweepZones(s)
    \/ \E out \in FetchOutcomes : SweepFetch(s, out)
    \/ SweepScore(s)
    \/ \E fail \in BOOLEAN : SweepFind(s, fail)
    \/ \E fail \in BOOLEAN : SweepCreate(s, fail)

ZoneStep ==
    \/ \E body \in ZoneBodies : CreateZone(body)
    \/ \E i \in 1..Len(zones), p \in ZonePatches : PatchZone(i, p)
    \/ \E i \in 1..Len(zones) : DeleteZone(i)

LeadStep ==
    \/ \E body \in DirectLeadBodies : CreateLeadDirect(body)
    \/ \E l \in leads, p \in LeadPatches : PatchLead(l, p)
    \/ \E l \in leads : DeleteLead(l)

\* The pipelines and the clients of the lead routes, over a zone table that
\* stays as configured.
Next ==
    \/ \E r \in Reqs : IngestStep(r)
    \/ \E s \in Sweeps : SweepStep(s)
    \/ LeadStep

Spec == Init /\ [][Next]_vars

\* The sweeps once started: the event loop resumes every continuation whose
\* awaited promise has settled.
SweepRun(s) ==
    \/ SweepZones(s)
    \/ \E out \in FetchOutcomes : SweepFetch(s, out)
    \/ SweepScore(s)
    \/ \E fail \in BOOLEAN : SweepFind(s, fail)
    \/ \E fail \in BOOLEAN : SweepCreate(s, fail)

FairSpec == Init /\ [][Next]_vars /\ \A s \in Sweeps : WF_vars(SweepRun(s))

\* The ingestion entrypoint alone: its requests, any rawHtml, over a store that
\* may fail.
IngestAnyStep(r) ==
    \/ \E html \in RawHtmlValues, source \in SourceHints : IngestStart(r, html, source)
    \/ IngestScore(r)
    \/ \E fail \in BOOLEAN : IngestFind(r, fail)
    \/ \E fail \in BOOLEAN : IngestCreate(r, fail)

IngestNext == \E r \in Reqs : IngestAnyStep(r)

IngestSpec == Init /\ [][IngestNext]_vars

\* One sweep while the zone editor's requests reach the configuration routes.
ZoneEditNext ==
    \/ SweepStep("s1")
    \/ ZoneStep

ZoneEditSpec == Init /\ [][ZoneEditNext]_vars

\* The sweeps with every fetch taken await by await.
SessionStep(s) ==
    \/ SweepStart(s)
    \/ SweepZones(s)
    \/ \E ok \in BOOLEAN : SweepLaunch(s, ok)
    \/ \E out \in PageOutcomes : SweepPage(s, out)
    \/ \E ok \in BOOLEAN : SweepClose(s, ok)
    \/ SweepScore(s)
    \/ \E fail \in BOOLEAN : SweepFind(s, fail)
    \/ \E fail \in BOOLEAN : SweepCreate(s, fail)

SessionNext == \E s \in Sweeps : SessionStep(s)

SessionSpec == Init /\ [][SessionNext]_vars

----------------------------------------------------------------------------
(* The scoring engine on its own: calculateScore over any small zone table *)

\* 'Python Developer' at 'On-site NY'
JobPython ==
    Posting(<<"P", "y", "t", "h", "o", "n", " ", "D", "e", "v", "e", "l", "o", "p", "e", "r">>,
            <<"A", "c", "m", "e">>,
            <<"O", "n", "-", "s", "i", "t", "e", " ", "N", "Y">>,
            <<>>, "u3")
\* a persisted row: location and description are NULL
JobNulls == Posting(<<"P", "y">>, <<"p", "Y">>, NullText, NullText, "u4")

FlagPython == StrFlag(<<"p", "y", "t", "h", "o", "n">>)
FlagOnSite == StrFlag(<<"o", "n", "-", "s", "i", "t", "e">>)
FlagEmpty == StrFlag(<<>>)

BodyZ1 == ZoneBody("Z1", "", "", <<FlagPython>>, <<>>, TRUE, {"LinkedIn", "Indeed"})
BodyZ2 == ZoneBody("Z2", "", "", <<>>, <<FlagOnSite>>, TRUE, {"LinkedIn", "Indeed"})
BodyTwoFlags ==
    ZoneBody("two", "", "", <<FlagPy, FlagEmpty>>, <<FlagPy>>, TRUE, {"LinkedIn", "Indeed"})

ScoreBodies ==
    {BodyMixed, BodyNoLocation, BodyNoTitle, BodyInactive, BodyBadFlag,
     BodyZ1, BodyZ2, BodyTwoFlags}

ScoreJobs == {JobA, JobB, JobPython, JobNulls}

\* Zone tables of up to MaxZones rows, ids in row order
ScoreZoneTables ==
    UNION { { [i \in 1..n |-> ZoneRow(i, f[i])] : f \in [1..n -> ScoreBodies] } :
            n \in 0..MaxZones }

ScoreInit ==
    /\ zones \in ScoreZoneTables
    /\ leads = {}
    /\ nextId = Len(zones) + 1
    /\ req = [r \in Reqs |-> IdleRequest]
    /\ sw = [s \in Sweeps |-> IdleSweep]
    /\ runs = 0
    /\ envOps = 0
    /\ call = NoCall

\* await calculateScore(job): the call and what it resolved to
ScoreCall(job) ==
    /\ call' = [fn |-> "calculateScore", job |-> job, result |-> CalculateScore(job, zones)]
    /\ UNCHANGED <<zones, leads, nextId, req, sw, runs, envOps>>

ScoreNext == \E job \in ScoreJobs : ScoreCall(job)

ScoreSpec == ScoreInit /\ [][ScoreNext]_vars

----------------------------------------------------------------------------
(* The rescore entrypoint: POST /api/radar/rescore -> rescoreAllLeads *)

RescoreRow(id, job, score, status) ==
    LeadRow(id, [title |-> job.title, companyName |-> job.companyName,
                 location |-> OrNull(job.location), jobUrl |-> job.jobUrl,
                 description |-> OrNull(job.description), source |-> "LinkedIn",
                 matchScore |-> score, status |-> status])

\* Rows as earlier ingests, sweeps and lead edits have left them
RescoreRows ==
    { RescoreRow(1, JobA, 7, "APPLIED"),
      RescoreRow(2, JobB, 0, "RADAR_NEW"),
      RescoreRow(3, JobPython, 0 - 25, "SHORTLISTED") }

\* prisma.jobLead.findMany(): the rows in primary-key order
RECURSIVE RowsById(_)
RowsById(rows) ==
    IF rows = {} THEN <<>>
    ELSE LET first == CHOOSE l \in rows : \A m \in rows : l.id <= m.id
         IN <<first>> \o RowsById(rows \ {first})

\* prisma.jobLead.update({ where: { id }, data: { matchScore: score } })
ApplyRescore_ResetsStatus(l, score) ==
    [l EXCEPT !.matchScore = score, !.status = "RADAR_NEW"]
ApplyRescore(l, score) == [l EXCEPT !.matchScore = score]

RescoreInit ==
    /\ zones \in ScoreZoneTables
    /\ leads \in SUBSET RescoreRows
    /\ nextId = 4
    /\ req = [r \in Reqs |-> IdleRequest]
    /\ sw = [s \in Sweeps |-> IdleSweep]
    /\ runs = 0
    /\ envOps = 0
    /\ call = NoCall

RescoreCall(pc, found, i, score, status, rescored) ==
    [fn |-> "rescore", pc |-> pc, found |-> found, i |-> i, score |-> score,
     status |-> status, rescored |-> rescored]

\* Loop head of "for (const lead of leads)": the next calculateScore, or
\* return leads.length and the route's res.json({ success, rescored }).
RescoreNextLead(c) ==
    IF c.i < Len(c.found)
    THEN RescoreCall("score", c.found, c.i + 1, 0, 0, 0 - 1)
    ELSE RescoreCall("done", c.found, c.i, 0, 200, Len(c.found))

RescoreFailed(c) == RescoreCall("done", c.found, c.i, 0, 500, 0 - 1)

\* const leads = await prisma.jobLead.findMany()
RescoreStart ==
    /\ call = NoCall
    /\ call' = RescoreNextLead(RescoreCall("start", RowsById(leads), 0, 0, 0, 0 - 1))
    /\ UNCHANGED <<zones, leads, nextId, req, sw, runs, envOps>>

\* const { score } = await calculateScore(lead)
RescoreScore ==
    /\ call.fn = "rescore" /\ call.pc = "score"
    /\ LET res == CalculateScore(call.found[call.i], zones)
       IN call' = IF res.throws THEN RescoreFailed(call)
                  ELSE [call EXCEPT !.pc = "update", !.score = res.score]
    /\ UNCHANGED <<zones, leads, nextId, req, sw, runs, envOps>>

\* await prisma.jobLead.update(...): rejects when the store fails or the row
\* is gone; the route's catch answers 500.
RescoreUpdate(fail) ==
    /\ call.fn = "rescore" /\ call.pc = "update"
    /\ fail => envOps < MaxEnvOps
    /\ envOps' = IF fail THEN envOps + 1 ELSE envOps
    /\ LET id == call.found[call.i].id
           row == {l \in leads : l.id = id}
       IN IF fail \/ row = {}
          THEN /\ call' = RescoreFailed(call)
               /\ UNCHANGED leads
          ELSE /\ leads' = (leads \ row) \cup {ApplyRescore(l, call.score) : l \in row}
               /\ call' = RescoreNextLead(call)
    /\ UNCHANGED <<zones, nextId, req, sw, runs>>

RescoreNext ==
    \/ RescoreStart
    \/ RescoreScore
    \/ \E fail \in BOOLEAN : RescoreUpdate(fail)

RescoreSpec == RescoreInit /\ [][RescoreNext]_vars

----------------------------------------------------------------------------
(* Functions of the parsers examined on their own *)

\* No request in progress, an empty store: the state in which a function of
\* the parsers is examined on its own.
PureInit ==
    /\ zones = <<>>
    /\ leads = {}
    /\ nextId = 1
    /\ req = [r \in Reqs |-> IdleRequest]
    /\ sw = [s \in Sweeps |-> IdleSweep]
    /\ runs = 0
    /\ envOps = 0
    /\ call = NoCall

DetectCall(text) ==
    /\ call = NoCall
    /\ call' = [fn |-> "detectSource", html |-> text, result |-> DetectSource(text)]
    /\ UNCHANGED <<zones, leads, nextId, req, sw, runs, envOps>>

DetectNext == \E text \in Documents : DetectCall(text)

DetectSpec == PureInit /\ [][DetectNext]_vars

\* parseJobHtml on its own.  The documents differ in their text (what
\* detectSource sees) and in the cards each adapter's selectors find in them;
\* the hints are the source names, other spellings of them, 'auto' and a name
\* of no adapter.  One document is dispatched under one hint and then under a
\* second one.
DispatchPages ==
    LET texts == {Frag.Plain, Frag.Greenhouse, Frag.IndeedList, Frag.LinkedinUrl}
        findings ==
            {by \in [{SourceNames[i] : i \in 1..Len(SourceNames)} -> {<<>>, <<JobA>>}] :
                Cardinality({n \in DOMAIN by : by[n] # <<>>}) <= MaxFinding}
    IN {JsPage("string", TRUE, text, by) : text \in texts, by \in findings}
       \cup {HtmlNull, HtmlEmptyString, HtmlNumber}

DispatchHints ==
    {"auto", "LinkedIn", "Indeed", "Otta", "Greenhouse", "Lever", "Ashby",
     "Rippling", "linkedin", "INDEED", "Monster"}

DispatchRecord(html, source, prev) ==
    [fn |-> "parseJobHtml", html |-> html, source |-> source,
     detected |-> DetectedSource(html, source),
     result |-> ParseJobHtml(html, source),
     trial |-> ReachesDefault(html, source),
     prev |-> prev]

DispatchCall(html, source) ==
    /\ call = NoCall
    /\ call' = DispatchRecord(html, source, NoCall)
    /\ UNCHANGED <<zones, leads, nextId, req, sw, runs, envOps>>

\* The same document again, under another hint
DispatchAgain(source) ==
    /\ call # NoCall
    /\ call.fn = "parseJobHtml"
    /\ call.prev = NoCall
    /\ call' = DispatchRecord(call.html, source,
                              [source |-> call.source, result |-> call.result])
    /\ UNCHANGED <<zones, leads, nextId, req, sw, runs, envOps>>

DispatchNext ==
    \/ \E html \in DispatchPages, source \in DispatchHints : DispatchCall(html, source)
    \/ \E source \in DispatchHints : DispatchAgain(source)

DispatchSpec == PureInit /\ [][DispatchNext]_vars

\* deduplicateJobs and the adapters that end with it, on their own: lists of
\* cards with empty and repeated links, and API payloads whose entries give a
\* link, give none, or give the link that is built for another entry.
CardLists ==
    LET cards == {Posting(title, <<"x">>, EmptyText, EmptyText, url) :
                     title \in {<<"P">>, <<"q">>}, url \in {"", "u1", "u2"}}
    IN UNION {[1..n -> cards] : n \in 0..MaxCards}

\* The payload of the Greenhouse example: one entry, no id
GreenhouseExample ==
    <<[title |-> <<"B", "a", "c", "k", "e", "n", "d", " ", "E", "n", "g", "i", "n", "e", "e", "r">>,
       locationName |-> <<"L", "o", "n", "d", "o", "n">>, absolute_url |-> "https://x/y",
       id |-> "undefined", content |-> NullText]>>

ApiPayloads ==
    LET entries ==
            {[title |-> title, locationName |-> name, absolute_url |-> url, id |-> id,
              content |-> NullText] :
                title \in {<<" ">>, <<"P", "y">>},
                name \in {NullText, <<"L", " ", " ", "N">>},
                url \in {"", "u1", "https://boards.greenhouse.io/acme/jobs/1"},
                id \in {"1", "2"}}
    IN UNION {[1..n -> entries] : n \in 0..MaxEntries} \cup {GreenhouseExample}

DedupCall(jobs) ==
    /\ call = NoCall
    /\ call' = [fn |-> "deduplicateJobs", jobs |-> jobs, result |-> DeduplicateJobs(jobs)]
    /\ UNCHANGED <<zones, leads, nextId, req, sw, runs, envOps>>

\* An HTML adapter on a document in which its selectors find the cards
AdapterCall(cards, source) ==
    /\ call = NoCall
    /\ call' = [fn |-> "adapter", source |-> source, jobs |-> cards,
                result |-> AdapterOutput(
                              JsPage("string", TRUE, Frag.Plain,
                                     [n \in {SourceNames[i] : i \in 1..Len(SourceNames)} |-> cards]),
                              source)]
    /\ UNCHANGED <<zones, leads, nextId, req, sw, runs, envOps>>

ApiCall(entries) ==
    /\ call = NoCall
    /\ call' = [fn |-> "parseGreenhouseApi", entries |-> entries, org |-> "acme",
                result |-> ParseGreenhouseApi(entries, "acme")]
    /\ UNCHANGED <<zones, leads, nextId, req, sw, runs, envOps>>

DedupNext ==
    \/ \E jobs \in CardLists : DedupCall(jobs)
    \/ \E cards \in CardLists, i \in 1..Len(SourceNames) : AdapterCall(cards, SourceNames[i])
    \/ \E entries \in ApiPayloads : ApiCall(entries)

DedupSpec == PureInit /\ [][DedupNext]_vars

\* parseJobJson on its own: payloads that are null, an object without a job
\* list, an object whose job list is a number, and lists of up to MaxEntries
\* entries (as the jobs property of an object, or as the payload itself) among
\* which are null entries, entries whose title is a number or absent, and
\* entries with and without a link, a team and a content.
JsonPayloads ==
    LET rep(c, n) == [i \in 1..n |-> c]
        entry(isNull, titleKind, title, url, team, content) ==
            [isNull |-> isNull, titleKind |-> titleKind, title |-> title,
             locationName |-> <<"L", "d", "n">>, absolute_url |-> url, hostedUrl |-> url,
             applyUrl |-> "", id |-> "7", team |-> team, kind |-> NullText,
             content |-> content]
        entries ==
            {entry(TRUE, "absent", NullText, "", NullText, NullText),
             entry(FALSE, "number", NullText, "", NullText, NullText),
             entry(FALSE, "absent", NullText, "u1", NullText, NullText)}
            \cup {entry(FALSE, "string", <<"P", "y">>, url, text[1], text[2]) :
                     url \in {"", "u1"},
                     text \in {<<NullText, NullText>>,
                               <<<<"T">>, <<"<", "b", ">", "x", "<", "/", "b", ">">>>>,
                               <<rep("a", MaxDescription), rep("a", MaxDescription + 1)>>}}
        lists == UNION {[1..n -> entries] : n \in 0..MaxEntries}
    IN {[kind |-> "null"],
        [kind |-> "object", jobsKind |-> "absent", items |-> <<>>],
        [kind |-> "object", jobsKind |-> "number", items |-> <<>>]}
       \cup {[kind |-> "object", jobsKind |-> "array", items |-> items] : items \in lists}
       \cup {[kind |-> "array", items |-> items] : items \in lists}

JsonCall(json, source) ==
    /\ call = NoCall
    /\ call' = [fn |-> "parseJobJson", json |-> json, source |-> source, org |-> "acme",
                result |-> ParseJobJson(json, source, "acme")]
    /\ UNCHANGED <<zones, leads, nextId, req, sw, runs, envOps>>

JsonNext ==
    \E json \in JsonPayloads,
       source \in {"Greenhouse", "Lever", "Ashby", "Rippling", "INDEED", "Monster"} :
        JsonCall(json, source)

JsonSpec == PureInit /\ [][JsonNext]_vars

\* The link handling on its own.  The hrefs are an empty href and every head
\* followed by every tail: relative with and without a leading slash, absolute
\* with a lower-case or mixed-case host, with and without a query.
Hrefs ==
    LET heads == {<<>>,   \* ''
                 <<"/">>,   \* /
                 <<"h", "t", "t", "p", "s", ":", "/", "/", "w", "w", "w", ".", "l", "i", "n", "k", "e", "d", "i", "n", ".", "c", "o", "m", "/">>,   \* https://www.linkedin.com/
                 <<"h", "t", "t", "p", "s", ":", "/", "/", "W", "W", "W", ".", "L", "i", "n", "k", "e", "d", "I", "n", ".", "c", "o", "m", "/">>,   \* https://WWW.LinkedIn.com/
                 <<"h", "t", "t", "p", "s", ":", "/", "/", "u", "k", ".", "i", "n", "d", "e", "e", "d", ".", "c", "o", "m", "/">>,   \* https://uk.indeed.com/
                 <<"h", "t", "t", "p", "s", ":", "/", "/">>}   \* https://
        tails == {<<"j", "o", "b", "s", "/", "v", "i", "e", "w", "/", "1", "2">>,   \* jobs/view/12
                 <<"j", "o", "b", "s", "/", "v", "i", "e", "w", "/", "1", "2", "-", "d", "e", "v", "?", "t", "=", "1">>,   \* jobs/view/12-dev?t=1
                 <<"v", "i", "e", "w", "j", "o", "b", "?", "j", "k", "=", "a", "b", "&", "t", "=", "1">>,   \* viewjob?jk=ab&t=1
                 <<"r", "c", "/", "c", "l", "k", "?", "j", "k", "=", "a", "%", "2", "6", "b">>,   \* rc/clk?jk=a%26b
                 <<"j", "o", "b", "s", ".", "l", "e", "v", "e", "r", ".", "c", "o", "/", "a", "c", "m", "e", "/", "1">>,   \* jobs.lever.co/acme/1
                 <<"x", "/", "j", "o", "b", "s", "/", "9">>}   \* x/jobs/9
    IN {<<>>} \cup {head \o tail : head \in heads, tail \in tails}

\* The hrefs that the link selector of an adapter's cards accepts:
\* a[href*="/jobs/view/"], a[href*="/jobs/collections/"] (LinkedIn),
\* a[href*="/rc/clk"], a[href*="/viewjob"], a.jcs-JobTitle (Indeed),
\* a[href*="/jobs/"] (Otta), a[href*="lever.co"] (Lever), the first link of the
\* card (Greenhouse, Ashby, Rippling).
HrefSelected(source, href) ==
    CASE source = "LinkedIn" -> Includes(href, Lit.SEL_VIEW) \/ Includes(href, Lit.SEL_COLLECTIONS)
      [] source = "Otta" -> Includes(href, Lit.SEL_JOBS)
      [] source = "Lever" -> Includes(href, Lit.SEL_LEVER)
      [] OTHER -> TRUE

RECURSIVE JoinChars(_)
JoinChars(t) == IF t = <<>> THEN "" ELSE Head(t) \o JoinChars(Tail(t))

\* A canonicalization function applied to a URL
Normalize(which, url, jobId) ==
    CASE which = "normalizeLinkedInUrl" -> NormalizeLinkedInUrl(url)
      [] which = "normalizeIndeedUrl" -> NormalizeIndeedUrl(url, jobId)
      [] OTHER -> NormalizeOttaUrl(url)

\* The function applied to a URL, and to its own output
NormalizeCall(which, url, jobId) ==
    /\ call = NoCall
    /\ which = "normalizeIndeedUrl" \/ jobId = <<>>
    /\ \E once \in {Normalize(which, url, jobId)} :
           call' = [fn |-> "normalize", which |-> which, url |-> url, jobId |-> jobId,
                    once |-> once, twice |-> Normalize(which, once, jobId)]
    /\ UNCHANGED <<zones, leads, nextId, req, sw, runs, envOps>>

\* A document in which the selectors of one adapter find one card
OneCardPage(source, url) ==
    JsPage("string", TRUE, Frag.Plain,
           [n \in {SourceNames[i] : i \in 1..Len(SourceNames)} |->
               IF n = source
               THEN <<Posting(<<"P", "y">>, EmptyText, EmptyText, EmptyText, JoinChars(url))>>
               ELSE <<>>])

\* An HTML adapter on a document with one card: a title and a link with the href
LinkCall(source, href, jobId) ==
    /\ call = NoCall
    /\ HrefSelected(source, href)
    /\ source = "Indeed" \/ jobId = <<>>
    /\ \E url \in {AdapterJobUrl(source, href, jobId)} :
           call' = [fn |-> "jobUrl", source |-> source, href |-> href, jobId |-> jobId,
                    url |-> url, result |-> AdapterOutput(OneCardPage(source, url), source)]
    /\ UNCHANGED <<zones, leads, nextId, req, sw, runs, envOps>>

UrlNext ==
    \/ \E which \in {"normalizeLinkedInUrl", "normalizeIndeedUrl", "normalizeOttaUrl"},
          url \in Hrefs, jobId \in {<<>>, <<"j", "1">>} :
           NormalizeCall(which, url, jobId)
    \/ \E i \in 1..Len(SourceNames), href \in Hrefs, jobId \in {<<>>, <<"j", "1">>} :
           LinkCall(SourceNames[i], href, jobId)

UrlSpec == PureInit /\ [][UrlNext]_vars

----------------------------------------------------------------------------
(* Properties *)

StoreUrls(rows) == {l.jobUrl : l \in rows}
RowsWithUrl(rows, url) == {l \in rows : l.jobUrl = url}

\* The URL of the posting an ingest request / a sweep is persisting
ReqUrl(st) == st.scored[st.i].jobUrl
SweepUrl(st) == st.scored[st.ji].jobUrl

\* C1: in every reachable state of the store, whatever ingest requests, sweeps
\* and direct lead requests have run and however their store calls interleave,
\* no two JobLead rows have the same jobUrl.
C1_UniqueJobUrl ==
    \A l1 \in leads, l2 \in leads : l1.jobUrl = l2.jobUrl => l1 = l2

\* Two pipeline runs, one of which inserted a row and the other of which had
\* its insert for a URL rejected after its own existence check had passed.
C1_Witness ==
    /\ leads # {}
    /\ \E r \in Reqs, s \in Sweeps :
           \/ req[r].conflicts > 0 /\ sw[s].created # {}
           \/ sw[s].conflicts > 0 /\ req[r].created # {}

\* C2: when a pipeline's insert follows its own existence check for a URL that
\* another path inserted in between, the insert creates no row, the losing
\* path does not count the posting as new and does not fail (an ingest counts
\* a duplicate and goes on to its next posting or its success response, a
\* sweep goes on to its next posting, unit or result); an insert that does
\* change the store adds exactly one row, for a URL the store did not hold,
\* and is counted as new exactly once.  (An insert that the store fails for
\* another reason than the unique index is not the race and is left aside.)
C2_IngestRace(r) ==
    (req[r].pc = "create" /\ req'[r] # req[r]
                           /\ req'[r].saveErrors = req[r].saveErrors) =>
        /\ ReqUrl(req[r]) \in StoreUrls(leads) =>
              /\ leads' = leads
              /\ req'[r].newCount = req[r].newCount
              /\ req'[r].duplicateCount = req[r].duplicateCount + 1
              /\ req'[r].pc \in {"find", "done"}
              /\ req'[r].pc = "done" => req'[r].response.status = 200
        /\ leads' # leads =>
              /\ ReqUrl(req[r]) \notin StoreUrls(leads)
              /\ \E l \in leads' : l.jobUrl = ReqUrl(req[r]) /\ leads' = leads \cup {l}
              /\ req'[r].newCount = req[r].newCount + 1
        /\ req'[r].newCount # req[r].newCount => leads' # leads

C2_SweepRace(s) ==
    (sw[s].pc = "create" /\ sw'[s] # sw[s]
                          /\ sw'[s].saveErrors = sw[s].saveErrors) =>
        /\ SweepUrl(sw[s]) \in StoreUrls(leads) =>
              /\ leads' = leads
              /\ sw'[s].totalNew = sw[s].totalNew
              /\ sw'[s].pc \in {"find", "fetch", "done"}
        /\ leads' # leads =>
              /\ SweepUrl(sw[s]) \notin StoreUrls(leads)
              /\ \E l \in leads' : l.jobUrl = SweepUrl(sw[s]) /\ leads' = leads \cup {l}
              /\ sw'[s].totalNew = sw[s].totalNew + 1
        /\ sw'[s].totalNew # sw[s].totalNew => leads' # leads

C2_OneWinner ==
    [][(\A r \in Reqs : C2_IngestRace(r)) /\ (\A s \in Sweeps : C2_SweepRace(s))]_vars

\* Two overlapping sweeps raced for a URL: one inserted it and returned
\* new = 1, the other was rejected and returned new = 0.
C2_Witness ==
    \E s \in Sweeps, t \in Sweeps :
        /\ s # t
        /\ sw[s].pc = "done" /\ sw[t].pc = "done"
        /\ sw[s].created # {} /\ sw[s].result.new = 1
        /\ sw[t].conflicts > 0 /\ sw[t].result.new = 0

\* C3: two ingest requests with the same single-posting document, the second
\* arriving after the first was answered, both answered with success over a
\* store that did not fail: the first reports new = 1, duplicates = 0, the
\* second new = 0, duplicates = 1, and one JobLead has the posting's jobUrl.
SequentialPair(r1, r2) ==
    /\ r1 # r2
    /\ req[r1].pc = "done" /\ req[r2].pc = "done"
    /\ r1 \in req[r2].seenDone
    /\ req[r1].html = req[r2].html
    /\ Len(req[r1].parsed) = 1 /\ Len(req[r2].parsed) = 1
    /\ req[r1].response.status = 200 /\ req[r2].response.status = 200
    /\ req[r1].saveErrors = 0 /\ req[r2].saveErrors = 0

C3_IngestTwice ==
    \A r1 \in Reqs, r2 \in Reqs :
        SequentialPair(r1, r2) =>
            /\ req[r1].response.stats = [parsed |-> 1, new |-> 1, duplicates |-> 0]
            /\ req[r2].response.stats = [parsed |-> 1, new |-> 0, duplicates |-> 1]
            /\ Cardinality(RowsWithUrl(leads, req[r1].parsed[1].jobUrl)) = 1

C3_Witness == \E r1 \in Reqs, r2 \in Reqs : SequentialPair(r1, r2)

\* C4: a step in which an ingest request or a sweep meets a posting whose
\* jobUrl is already stored (at its existence check or at its insert) leaves
\* the JobLead table exactly as it was; no step of either pipeline changes or
\* removes an existing row.
C4_IngestStep(r) ==
    (req[r].pc \in {"find", "create"} /\ req'[r] # req[r]) =>
        /\ leads \subseteq leads'
        /\ ReqUrl(req[r]) \in StoreUrls(leads) => leads' = leads

C4_SweepStep(s) ==
    (sw[s].pc \in {"find", "create"} /\ sw'[s] # sw[s]) =>
        /\ leads \subseteq leads'
        /\ SweepUrl(sw[s]) \in StoreUrls(leads) => leads' = leads

C4_DuplicateDiscarded ==
    [][(\A r \in Reqs : C4_IngestStep(r)) /\ (\A s \in Sweeps : C4_SweepStep(s))]_vars

\* A lead that has left the initial stage, or was created by hand with other
\* values, was met again by an ingest request, which counted a duplicate.
C4_Witness ==
    \E r \in Reqs, l \in leads :
        /\ req[r].pc = "done" /\ req[r].duplicateCount = 1
        /\ l.jobUrl = req[r].parsed[1].jobUrl
        /\ l.status # "RADAR_NEW"

\* C5: an answered ingest request whose rawHtml is falsy (absent, null or the
\* empty string) got the 400 error response; one whose rawHtml is a truthy
\* value that is not a string got the success response with parsed = 0,
\* new = 0 and duplicates = 0; in both cases the request inserted no JobLead.
ZeroStats == [parsed |-> 0, new |-> 0, duplicates |-> 0]

C5_EmptyOrNonString ==
    \A r \in Reqs :
        req[r].pc = "done" =>
            /\ ~req[r].html.truthy =>
                  /\ req[r].response.status = 400
                  /\ req[r].created = {}
            /\ (req[r].html.truthy /\ req[r].html.type # "string") =>
                  /\ req[r].response.status = 200
                  /\ req[r].response.stats = ZeroStats
                  /\ req[r].created = {}

\* One request with the empty string and one with a number have been answered.
C5_Witness ==
    \E r1 \in Reqs, r2 \in Reqs :
        /\ req[r1].pc = "done" /\ req[r1].html = HtmlEmptyString
        /\ req[r1].response.status = 400
        /\ req[r2].pc = "done" /\ req[r2].html = HtmlNumber
        /\ req[r2].response.status = 200

\* C5 as stated: empty or non-string rawHtml is answered with success and
\* zero statistics.
C5_AsStated ==
    \A r \in Reqs :
        (req[r].pc = "done"
            /\ (req[r].html = HtmlEmptyString \/ req[r].html.type # "string")) =>
            /\ req[r].response.status = 200
            /\ req[r].response.stats = ZeroStats

\* C6: for an active zone of a sweep's snapshot with no search location the
\* sweep builds no search URL and starts no fetch, counts none of its postings,
\* and is at no time fetching, scoring or persisting on its behalf.
NoLocation(zone) == zone.searchLocation = ""
SweepPairs(st, id) == {p \in st.built \cup st.fetched : p[1] = id}
SweepWorking(st) == st.pc \in {"fetch", "score", "find", "create"}

C6_NoLocationSkipped ==
    \A s \in Sweeps :
        /\ \A j \in 1..Len(sw[s].activeZones) :
               NoLocation(sw[s].activeZones[j]) =>
                   /\ SweepPairs(sw[s], sw[s].activeZones[j].id) = {}
                   /\ sw[s].activeZones[j].id \notin sw[s].counted
        /\ SweepWorking(sw[s]) => ~NoLocation(sw[s].activeZones[sw[s].zi])

\* A sweep returned counters from another zone with a location-less active
\* zone in its snapshot.
C6_Witness ==
    \E s \in Sweeps :
        /\ sw[s].pc = "done" /\ sw[s].result.processed > 0
        /\ \E j \in 1..Len(sw[s].activeZones) :
               /\ NoLocation(sw[s].activeZones[j])
               /\ sw[s].activeZones[j].searchTitle # ""

\* C7: a zone of the snapshot that the sweep's zone loop has reached is skipped
\* (no search URL built, no fetch started) exactly when it lacks its search
\* title or its search location; a reached zone with both has a search URL
\* built for every board and the fetch of the first one started.
ZoneReached(st, j) ==
    \/ st.pc = "done"
    \/ st.pc \in {"fetch", "score", "find", "create", "aborted"} /\ j <= st.zi

ZoneSwept(st, j) ==
    /\ \A k \in 1..Len(DefaultEnabledSources) :
           <<st.activeZones[j].id, DefaultEnabledSources[k]>> \in st.built
    /\ \E p \in st.fetched : p[1] = st.activeZones[j].id

C7_SkipWhenEitherMissing ==
    \A s \in Sweeps : \A j \in 1..Len(sw[s].activeZones) :
        ZoneReached(sw[s], j) =>
            LET zone == sw[s].activeZones[j]
            IN IF zone.searchTitle = "" \/ zone.searchLocation = ""
               THEN SweepPairs(sw[s], zone.id) = {}
               ELSE ZoneSwept(sw[s], j)

\* A finished sweep whose snapshot held a zone missing only one of the two
\* (skipped), a zone missing both (skipped) and a zone with both (swept).
C7_Witness ==
    \E s \in Sweeps :
        /\ sw[s].pc = "done"
        /\ \E i, j, k \in 1..Len(sw[s].activeZones) :
               /\ sw[s].activeZones[i].searchTitle # ""
               /\ sw[s].activeZones[i].searchLocation = ""
               /\ sw[s].activeZones[j].searchTitle = ""
               /\ sw[s].activeZones[j].searchLocation = ""
               /\ ZoneSwept(sw[s], k)

\* C7 as stated: a reached zone is skipped exactly when it lacks both.
C7_AsStated ==
    \A s \in Sweeps : \A j \in 1..Len(sw[s].activeZones) :
        ZoneReached(sw[s], j) =>
            LET zone == sw[s].activeZones[j]
            IN (SweepPairs(sw[s], zone.id) = {})
                   <=> (zone.searchTitle = "" /\ zone.searchLocation = "")

\* C8: no exception raised while scoring the postings of a unit leaves
\* performDiscoverySweep; the sweep goes on.
C8_ScoringIsolated ==
    \A s \in Sweeps : ~(sw[s].pc = "aborted" /\ sw[s].thrown = "score")

\* C9: once a fetch of a sweep has failed, the sweep eventually returns its
\* counters.
C9_SweepReturnsAfterFetchFailure ==
    \A s \in Sweeps : [](sw[s].fetchFailed => <>(sw[s].pc = "done"))

\* C10: a sweep builds a search URL and starts a fetch only for the sources
\* the zone's editor has enabled for the zone.
C10_OnlyEnabledSources ==
    \A s \in Sweeps : \A j \in 1..Len(sw[s].activeZones) :
        \A p \in SweepPairs(sw[s], sw[s].activeZones[j].id) :
            p[2] \in sw[s].activeZones[j].uiSources

\* C11: every JobLead a sweep has inserted carries the score of its posting
\* against the active zones as the sweep read them when it started, whatever
\* zone edits were made while the sweep was in progress.
C11_ScoredAgainstSweepSnapshot ==
    \A s \in Sweeps : \A l \in leads :
        l.id \in sw[s].created =>
            l.matchScore = CalculateScore(l, sw[s].activeZones).score

\* C12: a sweep has an open browser only while one of its fetches is between
\* its launch and its close: none is open when a fetch is about to start (the
\* first or the next unit), while a unit's postings are parsed, scored or
\* persisted, or when the sweep has returned, whether the page was obtained or
\* the navigation or the evaluation failed.
C12_SessionClosedOnReturn ==
    \A s \in Sweeps :
        sw[s].pc \in {"idle", "zones", "fetch", "score", "find", "create", "done"}
            => sw[s].browser = "none"

\* A sweep returned after a fetch whose navigation failed with its browser
\* launched, and after a unit whose page was obtained and counted.
C12_Witness ==
    \E s \in Sweeps :
        /\ sw[s].pc = "done" /\ sw[s].fetchFailed
        /\ sw[s].result.processed > 0
        /\ sw[s].browser = "none"

\* C13: no failed close of a browser makes performDiscoverySweep end without
\* its counters.
C13_LeakNeverAborts ==
    \A s \in Sweeps : sw[s].browser = "leaked" => sw[s].pc # "aborted"

\* C14: the row an ingest request or a sweep inserts has status RADAR_NEW and
\* the matchScore that the same request or sweep computed for the posting it
\* is persisting (which, the zone table being unchanged since, is the
\* posting's score against the active zones).
NewRowOf(url, score) ==
    \E l \in leads' \ leads :
        /\ leads' = leads \cup {l}
        /\ l.jobUrl = url
        /\ l.status = "RADAR_NEW"
        /\ l.matchScore = score
        /\ l.matchScore = CalculateScore(l, zones).score

C14_IngestCreates(r) ==
    req'[r].created # req[r].created =>
        NewRowOf(ReqUrl(req[r]), req[r].scored[req[r].i].matchScore)

C14_SweepCreates(s) ==
    sw'[s].created # sw[s].created =>
        NewRowOf(SweepUrl(sw[s]), sw[s].scored[sw[s].ji].matchScore)

C14_CreatedNewWithScore ==
    [][(\A r \in Reqs : C14_IngestCreates(r)) /\ (\A s \in Sweeps : C14_SweepCreates(s))]_vars

\* An ingest request and a sweep have each inserted a row, and the sweep's row
\* is stored with a score other than the column default.
C14_Witness ==
    \E r \in Reqs, s \in Sweeps :
        /\ req[r].created # {}
        /\ \E l \in leads :
               /\ l.id \in sw[s].created
               /\ l.status = "RADAR_NEW"
               /\ l.matchScore # 0

\* C15: the score calculateScore returns is the sum, over the active zones, of
\* the score of the posting against each zone alone; a posting matching green
\* flags of two active zones gets the points of both.
RECURSIVE SumSeq(_)
SumSeq(q) == IF q = <<>> THEN 0 ELSE Head(q) + SumSeq(Tail(q))

ScoredCall == call.fn = "calculateScore" /\ ~call.result.throws

ZoneAlone(job, z) == CalculateScore(job, <<z>>).score

C15_SumOverZones ==
    ScoredCall =>
        LET active == ActiveZones(zones)
        IN call.result.score =
               SumSeq([i \in 1..Len(active) |-> ZoneAlone(call.job, active[i])])

\* Two active zones each with a matching green flag: the posting got the
\* points of both, more than those of either.
C15_Witness ==
    /\ ScoredCall
    /\ Len(zones) = 2 /\ zones[1].active /\ zones[2].active
    /\ zones[1].name # zones[2].name
    /\ zones[1].redFlags = <<>> /\ zones[2].redFlags = <<>>
    /\ ZoneAlone(call.job, zones[1]) > 0
    /\ ZoneAlone(call.job, zones[2]) > 0
    /\ call.result.score = ZoneAlone(call.job, zones[1]) + ZoneAlone(call.job, zones[2])

\* C16: for every posting and every table of zones whose flags are strings,
\* calculateScore returns the reference result: per active zone, per green
\* flag and per field title, company, location, description, a
\* case-insensitive substring match gives one entry {flag, field, points} with
\* +25, +15, +10, +5 (red flags: -30, -20, -50, -10, in redFlags), and the
\* score is the sum of the points of all entries; no active zone gives 0 and
\* empty lists; Z1 green 'python' and Z2 red 'on-site' on 'Python Developer'
\* at 'On-site NY' give -25 with one entry in each list.
RefFields == <<"title", "company", "location", "description">>
RefGreenPoints == <<25, 15, 10, 5>>
RefRedPoints == <<0 - 30, 0 - 20, 0 - 50, 0 - 10>>

RefText(job, f) ==
    LET t == CASE f = 1 -> job.title [] f = 2 -> job.companyName
               [] f = 3 -> job.location [] OTHER -> job.description
    IN IF t = NullText THEN <<>> ELSE t

SameLetter(a, b) == Lower(a) = Lower(b)

RefMatches(text, flag) ==
    \E off \in 0..Len(text) :
        /\ off + Len(flag) <= Len(text)
        /\ \A k \in 1..Len(flag) : SameLetter(text[off + k], flag[k])

RECURSIVE Flatten(_)
Flatten(qq) == IF qq = <<>> THEN <<>> ELSE Head(qq) \o Flatten(Tail(qq))

RefFlagEntries(job, flag, points) ==
    Flatten([f \in 1..4 |->
        IF RefMatches(RefText(job, f), flag.s)
        THEN <<[flag |-> flag.s, field |-> RefFields[f], points |-> points[f]]>>
        ELSE <<>>])

RefEntries(job, zs, green) ==
    Flatten([i \in 1..Len(zs) |->
        LET flags == IF green THEN zs[i].greenFlags ELSE zs[i].redFlags
        IN Flatten([j \in 1..Len(flags) |->
               RefFlagEntries(job, flags[j],
                              IF green THEN RefGreenPoints ELSE RefRedPoints)])])

RefPoints(entries) == SumSeq([i \in 1..Len(entries) |-> entries[i].points])

RefScore(job, zs) ==
    LET greens == RefEntries(job, zs, TRUE)
        reds == RefEntries(job, zs, FALSE)
    IN [throws |-> FALSE, score |-> RefPoints(greens) + RefPoints(reds),
        matches |-> [greenFlags |-> greens, redFlags |-> reds]]

FlagsAreStrings(zs) ==
    \A i \in 1..Len(zs) :
        /\ \A j \in 1..Len(zs[i].greenFlags) : zs[i].greenFlags[j].type = "string"
        /\ \A j \in 1..Len(zs[i].redFlags) : zs[i].redFlags[j].type = "string"

PythonExample ==
    /\ call.fn = "calculateScore" /\ call.job = JobPython
    /\ zones = <<ZoneRow(1, BodyZ1), ZoneRow(2, BodyZ2)>>

C16_MatchesReference ==
    call.fn = "calculateScore" =>
        LET active == ActiveZones(zones)
        IN /\ FlagsAreStrings(active) => call.result = RefScore(call.job, active)
           /\ active = <<>> =>
                  /\ call.result.score = 0
                  /\ call.result.matches = [greenFlags |-> <<>>, redFlags |-> <<>>]
           /\ PythonExample =>
                  /\ call.result.score = 0 - 25
                  /\ Len(call.result.matches.greenFlags) = 1
                  /\ Len(call.result.matches.redFlags) = 1

\* The 'Python Developer' example has been scored: +25 on the title, -50 on
\* the location.
C16_Witness ==
    /\ PythonExample
    /\ call.result.matches.greenFlags =
           <<[flag |-> FlagPython.s, field |-> "title", points |-> 25]>>
    /\ call.result.matches.redFlags =
           <<[flag |-> FlagOnSite.s, field |-> "location", points |-> 0 - 50]>>

\* C17: when the rescore route has answered with success, over zones and leads
\* that nothing else changed meanwhile, every JobLead has the matchScore of
\* its score against the current active zones, the rows are otherwise the rows
\* that were there (same rows, every other field as before), and the count
\* returned is the number of JobLeads.
RescoreCompleted == call.fn = "rescore" /\ call.pc = "done" /\ call.status = 200

SameButScore(l, o) == [l EXCEPT !.matchScore = o.matchScore] = o

OccursIn(text, needle) ==
    \E off \in 0..Len(text) :
        /\ off + Len(needle) <= Len(text)
        /\ \A k \in 1..Len(needle) : SameLetter(text[off + k], needle[k])

SourceOrder ==
    <<"LinkedIn", "Indeed", "Otta", "Greenhouse", "Lever", "Ashby", "Rippling">>

Identifies(text, i) ==
    \E k \in 1..Len(DetectionList[i].needles) :
        OccursIn(text, DetectionList[i].needles[k])

FirstIdentified(text) ==
    LET found == {i \in 1..Len(SourceOrder) : Identifies(text, i)}
    IN IF found = {} THEN "auto"
       ELSE SourceOrder[CHOOSE i \in found : \A j \in found : i <= j]

C18_FirstSourceInOrder ==
    call.fn = "detectSource" => call.result = FirstIdentified(call.html)

----------------------------------------------------------------------------
(* C19: dispatch by hint, and the trial of the adapters when nothing is      *)
(* named and nothing is detected                                            *)

\* The sources a hint names, whatever the case of its letters
NamedBy(hint) ==
    {i \in 1..Len(SourceOrder) :
        /\ Len(HintChars(hint)) = Len(HintChars(SourceOrder[i]))
        /\ \A k \in 1..Len(HintChars(hint)) :
              SameLetter(HintChars(hint)[k], HintChars(SourceOrder[i])[k])}

\* The output of the first adapter, in the fixed order, that finds postings
FirstNonEmpty(html) ==
    LET finding == {i \in 1..Len(SourceOrder) : AdapterOutput(html, SourceOrder[i]) # <<>>}
    IN IF finding = {} THEN <<>>
       ELSE AdapterOutput(html, SourceOrder[CHOOSE i \in finding : \A j \in finding : i <= j])

\* C19: on a string document, parseJobHtml with a hint that names a known
\* source in any letter case returns exactly that adapter's output and does not
\* run detectSource; with the hint 'auto' and a document in which detectSource
\* finds no source it returns the first non-empty output in the order LinkedIn,
\* Indeed, Otta, Greenhouse, Lever, Ashby, Rippling, or the empty list.
C19_DispatchByHint ==
    (call.fn = "parseJobHtml" /\ call.html.type = "string") =>
        /\ \A i \in NamedBy(call.source) :
              /\ call.result = AdapterOutput(call.html, SourceOrder[i])
              /\ call.detected = "notCalled"
        /\ (call.source = "auto" /\ call.detected = "auto") =>
              call.result = FirstNonEmpty(call.html)

\* A document in which detectSource finds nothing and only the Otta and
\* Greenhouse selectors find cards: under the hint 'INDEED' the empty output
\* of the Indeed adapter came back, and under 'auto' the Otta postings do.
C19_Witness ==
    /\ call.fn = "parseJobHtml"
    /\ call.prev # NoCall
    /\ call.prev.source = "INDEED"
    /\ call.prev.result = <<>>
    /\ call.html.by["LinkedIn"] = <<>>
    /\ call.html.by["Indeed"] = <<>>
    /\ call.html.by["Otta"] # <<>>
    /\ call.html.by["Greenhouse"] # <<>>
    /\ call.source = "auto"
    /\ call.detected = "auto"
    /\ Len(call.result) = 1
    /\ call.result[1].source = "Otta"

----------------------------------------------------------------------------
(* C20: deduplicateJobs keeps the first posting of every link               *)

\* The positions of a list that hold the first occurrence of a non-empty link
FirstOccurrences(jobs) ==
    {i \in 1..Len(jobs) :
        /\ jobs[i].jobUrl # ""
        /\ \A j \in 1..(i - 1) : jobs[j].jobUrl # jobs[i].jobUrl}

\* The subsequence of a list at a set of positions, in the order of the list
SubsequenceAt(jobs, at) ==
    [k \in 1..Cardinality(at) |->
        jobs[CHOOSE i \in at : Cardinality({j \in at : j < i}) = k - 1]]

DistinctLinks(jobs) ==
    /\ \A i \in 1..Len(jobs) : jobs[i].jobUrl # ""
    /\ \A i, j \in 1..Len(jobs) : jobs[i].jobUrl = jobs[j].jobUrl => i = j

\* C20: deduplicateJobs returns the subsequence of its input, in input order,
\* made of the first occurrence of each distinct non-empty jobUrl; no two
\* postings in the output of an adapter (HTML or API) share a jobUrl and none
\* has an empty jobUrl.
C20_FirstOccurrenceOfEachLink ==
    /\ call.fn = "deduplicateJobs" =>
          call.result = SubsequenceAt(call.jobs, FirstOccurrences(call.jobs))
    /\ call.fn \in {"adapter", "parseGreenhouseApi"} => DistinctLinks(call.result)

\* Three cards, the first without a link, the other two with the same link
\* and different titles: the second card alone is returned.
C20_Witness ==
    /\ call.fn = "deduplicateJobs"
    /\ Len(call.jobs) = 3
    /\ call.jobs[1].jobUrl = ""
    /\ call.jobs[2].jobUrl = call.jobs[3].jobUrl
    /\ call.jobs[2].title # call.jobs[3].title
    /\ call.result = <<call.jobs[2]>>

----------------------------------------------------------------------------
(* C21: the parse functions return a list and never raise                   *)

\* C21: for every JSON value given to an API parse function through
\* parseJobJson (a job list that is not an array, null entries and entries
\* with a title that is no string included), the function returns a list and
\* does not raise.
C21_ParseNeverRaises ==
    call.fn = "parseJobJson" => ~call.result.raised

----------------------------------------------------------------------------
(* C23: the length of the description                                       *)

\* C23: every posting returned by an API adapter has a description of at
\* most 500 characters.
C23_DescriptionAtMost500 ==
    (call.fn = "parseJobJson" /\ ~call.result.raised) =>
        \A i \in 1..Len(call.result.jobs) :
            Len(call.result.jobs[i].description) <= MaxDescription

----------------------------------------------------------------------------
(* C22: absolute links                                                      *)

\* The domain of a source, with its scheme
KnownOrigin(source) ==
    CASE source = "LinkedIn" -> Lit.LINKEDIN_ORIGIN
      [] source = "Indeed" -> Lit.INDEED_ORIGIN
      [] source = "Otta" -> Lit.OTTA_ORIGIN
      [] source = "Greenhouse" -> Lit.GREENHOUSE_ORIGIN
      [] source = "Lever" -> Lit.LEVER_ORIGIN
      [] source = "Ashby" -> Lit.ASHBY_ORIGIN
      [] source = "Rippling" -> Lit.RIPPLING_ORIGIN

\* C22: every posting returned by an adapter has an absolute jobUrl, and when
\* the link in the markup was relative the jobUrl is on the source's domain.
C22_AbsoluteJobUrl ==
    (call.fn = "jobUrl" /\ call.result # <<>>) =>
        /\ ParseUrl(call.url).ok
        /\ ~ParseUrl(call.href).ok => ParseUrl(call.url).origin = KnownOrigin(call.source)

----------------------------------------------------------------------------
(* C24: canonicalization twice                                              *)

\* C24: each canonicalization function applied to its own output returns
\* that output.
C24_CanonicalizationIdempotent ==
    call.fn = "normalize" => call.twice = call.once

----------------------------------------------------------------------------
(* C25: the Greenhouse API adapter                                          *)

\* A title of which nothing is left after the whitespace cleanup
BlankTitle(t) ==
    t = NullText \/ \A i \in 1..Len(t) : t[i] \in {" ", "\n", "\r", "\t"}

\* The link of an entry: the one it provides, else the one built from org and id
EntryLink(e, org) ==
    IF e.absolute_url # "" THEN e.absolute_url
    ELSE "https://boards.greenhouse.io/" \o org \o "/jobs/" \o e.id

\* The entries that yield a posting: a title that is not blank, and a link that
\* no earlier entry with such a title has
YieldingEntries(entries, org) ==
    {i \in 1..Len(entries) :
        /\ ~BlankTitle(entries[i].title)
        /\ \A j \in 1..(i - 1) :
              BlankTitle(entries[j].title)
              \/ EntryLink(entries[j], org) # EntryLink(entries[i], org)}

----------------------------------------------------------------------------
(* Order of the units of a sweep *)

\* Zone tables with more than one zone to sweep: two searchable active zones
\* around an inactive one, and a searchable zone after one without a title.
OrderZoneTables ==
    { <<ZoneRow(1, BodyMixed), ZoneRow(2, BodyInactive), ZoneRow(3, BodyMixed)>>,
      <<ZoneRow(1, BodyNoTitle), ZoneRow(2, BodyMixed), ZoneRow(3, BodyMixed)>> }

OrderInit ==
    /\ zones \in OrderZoneTables
    /\ leads = {}
    /\ nextId = Len(zones) + 1
    /\ req = [r \in Reqs |-> IdleRequest]
    /\ sw = [s \in Sweeps |-> IdleSweep]
    /\ runs = 0
    /\ envOps = 0
    /\ call = NoCall

\* One sweep, every fetch taken await by await, over these tables.
OrderNext == SessionStep("s1")

OrderSpec == OrderInit /\ [][OrderNext]_vars

\* Position of a unit (zone id, source) in the order of the sweep: the place
\* of its zone among the active zones as retrieved, then LinkedIn before Indeed.
UnitZoneIndex(st, u) ==
    CHOOSE j \in 1..Len(st.activeZones) : st.activeZones[j].id = u[1]

UnitSourceRank(u) == IF u[2] = "LinkedIn" THEN 1 ELSE 2

UnitBefore(st, v, u) ==
    \/ UnitZoneIndex(st, v) < UnitZoneIndex(st, u)
    \/ /\ UnitZoneIndex(st, v) = UnitZoneIndex(st, u)
       /\ UnitSourceRank(v) < UnitSourceRank(u)

C26_UnitStep(s) ==
    LET st == sw[s]
        nx == sw'[s]
        started == nx.fetched \ st.fetched
    IN /\ started # {} =>
            /\ Cardinality(started) = 1
            /\ \A u \in started :
                  /\ u = <<nx.activeZones[nx.zi].id, nx.tasks[nx.ti].source>>
                  /\ \A v \in st.fetched : UnitBefore(nx, v, u)
            /\ st.pc # "score"
            /\ st.ji = Len(st.scored)
            /\ nx.browser # "open"
       /\ nx.pc \in {"score", "find", "create"} =>
            /\ <<nx.activeZones[nx.zi].id, nx.tasks[nx.ti].source>> \in nx.fetched
            /\ \A v \in nx.fetched :
                  \/ v = <<nx.activeZones[nx.zi].id, nx.tasks[nx.ti].source>>
                  \/ UnitBefore(nx, v, <<nx.activeZones[nx.zi].id, nx.tasks[nx.ti].source>>)

\* C26: within one sweep the zone x source units run strictly one after
\* another: every step starts the fetch of at most one unit, that unit comes
\* after every unit already started (zones in retrieval order, LinkedIn before
\* Indeed within a zone), the fetch starts only when the scoring and every
\* lookup and insert of the previous unit have finished and its browser
\* session is no longer open, and every scoring, lookup and insert belongs to
\* the unit started last.
C26_UnitsOneAfterAnother == [][\A s \in Sweeps : C26_UnitStep(s)]_vars

\* A sweep that has returned after starting at least three units over two
\* zones and inserting a lead.
C26_Witness ==
    \E s \in Sweeps :
        /\ sw[s].pc = "done"
        /\ Cardinality(sw[s].fetched) >= 3
        /\ Cardinality({u[1] : u \in sw[s].fetched}) >= 2
        /\ sw[s].created # {}


----------------------------------------------------------------------------
(* Effect of each identifying substring *)

\* C27: every identifying substring in detectSource's list is effective: a
\* document that contains the substring, in any letter case, and contains no
\* identifying substring of a source of higher precedence is detected as the
\* source the substring is listed for.
C27_EverySubstringEffective ==
    call.fn = "detectSource" =>
        \A i \in 1..Len(DetectionList) : \A k \in 1..Len(DetectionList[i].needles) :
            (/\ OccursIn(call.html, DetectionList[i].needles[k])
             /\ \A j \in 1..(i - 1) : ~Identifies(call.html, j))
                => call.result = DetectionList[i].source


----------------------------------------------------------------------------
(* Detection decides the adapter *)

\* C28: under the hint 'auto', when detectSource identifies a source,
\* parseJobHtml returns exactly the output of that source's adapter, also when
\* that output is empty; the trial of all adapters is reached only when
\* detection returned 'auto' or the hint names no known source.
C28_DetectedAdapterOnly ==
    call.fn = "parseJobHtml" =>
        /\ (call.source = "auto" /\ call.detected \notin {"auto", "notCalled"}) =>
              /\ call.result = AdapterOutput(call.html, call.detected)
              /\ ~call.trial
        /\ call.trial =>
              \/ call.source = "auto" /\ call.detected = "auto"
              \/ call.source # "auto" /\ NamedBy(call.source) = {}

\* A document detected as Greenhouse in which the Greenhouse selectors find
\* nothing and the LinkedIn selectors find a card: the hint 'auto' returned the
\* empty list without the trial, and before that the hint 'Monster' ran the
\* trial on the same document and returned the LinkedIn posting.
C28_Witness ==
    /\ call.fn = "parseJobHtml"
    /\ call.source = "auto"
    /\ call.detected = "Greenhouse"
    /\ call.html.by["Greenhouse"] = <<>>
    /\ call.html.by["LinkedIn"] # <<>>
    /\ call.result = <<>>
    /\ ~call.trial
    /\ call.prev # NoCall
    /\ call.prev.source = "Monster"
    /\ Len(call.prev.result) = 1
    /\ call.prev.result[1].source = "LinkedIn"


----------------------------------------------------------------------------
(* Counters of a sweep *)

C29_CounterStep(s) ==
    LET st == sw[s]
        nx == sw'[s]
    IN nx # st =>
          \* new counts the leads this sweep inserts, one by one
          /\ nx.totalNew - st.totalNew = Cardinality(leads' \ leads)
          /\ {l.id : l \in leads' \ leads} = nx.created \ st.created
          /\ nx.totalNew = Cardinality(nx.created)
          \* processed counts the scored postings whose handling has begun,
          \* whatever becomes of their lookup and insert
          /\ nx.totalProcessed - st.totalProcessed = (IF nx.pc = "find" THEN 1 ELSE 0)
          /\ st.pc \in {"find", "create"} =>
                 st.totalProcessed >= st.totalNew + st.conflicts + st.saveErrors + 1
          /\ nx.totalNew >= st.totalNew
          /\ nx.totalProcessed >= st.totalProcessed
          /\ nx.totalNew <= nx.totalProcessed
          /\ nx.pc = "done" =>
                 nx.result = [processed |-> nx.totalProcessed, new |-> nx.totalNew]

\* C29: at every point of a sweep and in the counters it returns, new is the
\* number of JobLeads this sweep has created and processed the number of
\* scored postings it has handled, including those whose link already existed
\* or whose save failed; neither counter ever decreases and new <= processed.
C29_SweepCounters == [][\A s \in Sweeps : C29_CounterStep(s)]_vars

\* A sweep that returned processed 2 and new 1: it inserted the posting of its
\* first unit and found the link in the store at its second.
C29_Witness ==
    \E s \in Sweeps :
        /\ sw[s].pc = "done"
        /\ sw[s].result = [processed |-> 2, new |-> 1]
        /\ Cardinality(sw[s].created) = 1


----------------------------------------------------------------------------
(* Counters of an ingest response *)

====
